---- MODULE Spec2Model ----
(***************************************************************************)
(* Model of the tvnews ingest pipeline.                                    *)
(*                                                                         *)
(*  Part I   components/detect_faces_and_compute_embeddings.py:            *)
(*           process_videos (one video of the loop), its N worker threads  *)
(*           (thread_task), the merge, the count check and the four        *)
(*           artifact writes.                                              *)
(*  Part II  components/identify_faces_with_aws.py: search_aws, the        *)
(*           retrying call to the recognition service.                     *)
(*  Part III process_labeling_results, which maps the boxes of a response  *)
(*           back to the face_ids of the montage.                          *)
(*  Part IV  process_video and submit_images_for_labeling: chunking, the   *)
(*           one-time split, the futures and the identities file.          *)
(*  Part V   main of the identification pass: the pool of worker processes *)
(*           and their executors.                                          *)
(*  Part VI  main of the identification pass from its entry: the           *)
(*           credentials check, the output directories and the pruning.    *)
(*  Part VII process_videos over the whole list of videos: the pruning of  *)
(*           videos with existing outputs and the loop over the rest.      *)
(*                                                                         *)
(* A decoded frame is represented by its frame number.  The detector, the  *)
(* cropper and the embedder are per-image functions of the frame: a        *)
(* bounding box, an embedding and a crop carry the frame number and the    *)
(* in-frame position of the face they come from, so that any reordering,   *)
(* loss or duplication of a face is visible in the values.                 *)
(***************************************************************************)
EXTENDS Integers, Sequences, FiniteSets, TLC

(***************************************************************************)
(* Bounds of the model.                                                    *)
(***************************************************************************)
MaxSlots == 17       \* largest n_slots of a video (> BATCH_SIZE: two batches)
MaxThreads == 3      \* largest os.cpu_count()
MaxFaces == 2        \* most faces the detector reports in one frame
SizeMargin == 2      \* payload sizes range over MaxImageBytes -+ SizeMargin
MaxImgs == 5         \* most crops in the crops directory of a video
MaxCols == 2         \* most columns of a montage that is decoded
MaxCount == 3        \* most crops of a montage that is decoded
MaxRecognized == 2   \* most recognized detections of a response made of nearby boxes
MaxUnrecognized == 1 \* most unrecognized detections of such a response
MaxVideos == 5       \* most videos left to identify after pruning

(***************************************************************************)
(* Program constants.                                                      *)
(***************************************************************************)
BATCH_SIZE == 16
AttemptsOffByOne == 10 + 1       \* mutant of Attempts: range(11)
MaxImageBytesPlusOne == 5 * 1024 * 1024 + 1   \* mutant of MaxImageBytes
MaxImageBytes == 5242880     \* 5 * 1024 * 1024
Attempts == 10               \* for i in range(10)

VARIABLES
    \* ---- inputs of one video of process_videos
    n_threads,          \* os.cpu_count()
    interval,           \* interval length in seconds
    meta,               \* get_video_metadata: [frames, fps]
    embedShort,         \* frame numbers where the embedder returns one vector too few
    \* ---- main thread
    pc,                 \* position of process_videos in the loop body
    k,                  \* index of the start / join loops
    all_bboxes, all_crops, all_embeddings,
    \* ---- worker threads
    tpc,                \* thread id -> "new" | "started" | "loop" | "done"
    range,              \* thread id -> <<start_sec, end_sec>> once computed
    sec,                \* thread id -> start of the next batch
    thread_bboxes, thread_crops, thread_embeddings,
    failed,             \* thread id -> "no" | "open" | "read": why it returned early
    doneOrder,          \* thread ids in the order in which they terminated
    \* ---- output directory of the video
    disk,               \* what a reader of the directory sees
    pending,            \* save_img tasks submitted to the executor, not yet run
    \* ---- one call of search_aws
    img_size,           \* len(img_data)
    spc,                \* "idle" | "entry" | "call" | "sleep" | "returned" | "raised"
    attempt,            \* the loop variable i
    trace,              \* <<"call", i, "ok" | "fail">> and <<"sleep", delay>>, in order
    search_result       \* the response returned, or the exception raised

dvars == <<n_threads, interval, meta, embedShort,
           pc, k, all_bboxes, all_crops, all_embeddings,
           tpc, range, sec, thread_bboxes, thread_crops, thread_embeddings,
           failed, doneOrder, disk, pending>>

svars == <<img_size, spc, attempt, trace, search_result>>

VARIABLES
    \* ---- one call of process_labeling_results
    geometry,           \* [n_cols, block_size, img_ids]: the montage that was sent
    aws_response,       \* [CelebrityFaces, UnrecognizedFaces]: sequences of detections
    dpc,                \* "idle" | "recognized" | "unrecognized" | "returned"
    labels,             \* the dict labels
    decoded,            \* the list returned
    \* ---- one call of process_video
    MONTAGE_WIDTH,      \* config.MONTAGE_WIDTH (n_cols)
    MONTAGE_HEIGHT,     \* config.MONTAGE_HEIGHT (n_rows)
    img_files,          \* the crops of the video, sorted by face_id
    vpc,                \* "idle" | "list" | "submit" | "drain" | "saved" | "raised"
    futures,            \* the futures list: one record per chunk submitted
    fi,                 \* index of the loop over futures
    completed,          \* the chunks in the order in which their tasks ended
    video_labels,
    identities,         \* the video's identities file: {} if absent, else {content}
    \* ---- main: the pool of video worker processes
    video_names,        \* number of videos left after pruning
    next_video,         \* number of videos handed to a worker so far
    proc                \* worker -> [video, waiting, calling]

kvars == <<geometry, aws_response, dpc, labels, decoded>>

vvars == <<MONTAGE_WIDTH, MONTAGE_HEIGHT, img_files, vpc, futures, fi, completed,
           video_labels, identities>>

pvars == <<video_names, next_video, proc>>

VARIABLES
    \* ---- main of the identification pass, from its entry
    AWS_ACCESS_KEY_ID,      \* TRUE iff config.AWS_ACCESS_KEY_ID is set (truthy)
    AWS_SECRET_ACCESS_KEY,  \* TRUE iff config.AWS_SECRET_ACCESS_KEY is set
    overwrite,          \* the argument force of main
    in_path,            \* os.listdir(in_path): per video directory, whether it has
                        \* a crops directory and an identities file
    names,              \* the list video_names while it is pruned: indices of in_path
    made,               \* the output directories main has created
    mpc,                \* "idle" | "entry" | "prune" | "pool" | "joined" | "returned"
    \* ---- process_videos: the run over the list of videos
    init_run,           \* --init-run
    force,              \* --force-rerun
    disable,            \* the named components disabled
    out_paths,          \* per listed video, the artifacts that validate in its
                        \* output directory; <<>> before they are examined
    video_paths,        \* the list of videos: indices of the list given
    all_metadata,       \* get_video_metadata of every video left
    rpc,                \* "idle" | "prune" | "metadata" | "loop" | "finished" |
                        \* "returned" | "raised"
    vid_id,             \* the loop variable, 1-based
    log                 \* per video of the loop that ended, what the loop did

mvars == <<AWS_ACCESS_KEY_ID, AWS_SECRET_ACCESS_KEY, overwrite, in_path, names,
           made, mpc>>

rvars == <<init_run, force, disable, out_paths, video_paths, all_metadata,
           rpc, vid_id, log>>

\* the entry of the two passes
wvars == <<mvars, rvars>>

\* the identification pass apart from search_aws, and the entry of the passes
xvars == <<kvars, vvars, pvars, wvars>>

vars == <<dvars, svars, xvars>>

Threads == 0 .. (n_threads - 1)

Min(a, b) == IF a < b THEN a ELSE b

(***************************************************************************)
(* Time sampling.                                                          *)
(***************************************************************************)
\* math.floor(frames / fps / interval)
n_sec(m, iv) == (m.frames \div m.fps) \div iv

\* mutant: the remainder n_sec % n_threads is not added to the last thread
chunk_size_sec_no_remainder(n, nt, thread_id) == n \div nt

\* chunk_size_sec of thread thread_id, after the remainder is added to the last
chunk_size_sec(n, nt, thread_id) ==
    IF thread_id = nt - 1 THEN (n \div nt) + (n % nt) ELSE n \div nt

start_sec(n, nt, thread_id) == (n \div nt) * thread_id

end_sec(n, nt, thread_id) == start_sec(n, nt, thread_id) + chunk_size_sec(n, nt, thread_id)

\* math.ceil(i * fps * interval), fps an integer here
frame_num(i, m, iv) == i * m.fps * iv

(***************************************************************************)
(* The capabilities: detector, cropper, embedder.                          *)
(***************************************************************************)
\* number of faces the detector finds in frame f
FaceCount(f) == IF f % 5 = 1 THEN 1 + ((f \div 5) % MaxFaces) ELSE 0

\* face_detector.face_detect on one frame: the boxes, in the detector's order
face_detect(f) == [j \in 1 .. FaceCount(f) |-> <<"bbox", f, j>>]

\* crop_bbox(frame, bb, expand=0.1, square=True) for every box of a frame
square_crops(x) == [j \in 1 .. Len(x) |-> <<"crop", x[j][2], x[j][3]>>]

\* face_embedder.embed on the tight crops of the boxes x of frame f
embed(f, x) ==
    LET full == [j \in 1 .. Len(x) |-> <<"embed", x[j][2], x[j][3]>>]
    IN  IF f \in embedShort /\ Len(x) > 0 THEN SubSeq(full, 1, Len(x) - 1) ELSE full

(***************************************************************************)
(* thread_task.                                                            *)
(***************************************************************************)
\* the slots of the batch that starts at slot s in a range that ends at e
batch_slots(s, e) == s .. (Min(s + BATCH_SIZE, e) - 1)

\* frames of the batch, in slot order
batch_frames(s, e) ==
    [j \in 1 .. (Min(s + BATCH_SIZE, e) - s) |-> frame_num(s + j - 1, meta, interval)]

\* mutant of own_slot: every thread extends the lists of thread 0
first_slot(thread_id) == 0

\* thread_bboxes[thread_id], thread_embeddings[thread_id], thread_crops[thread_id]:
\* the index of the lists a thread extends
own_slot(thread_id) == thread_id

\* video = cv2.VideoCapture(in_path); if not video.isOpened(): return;
\* then the range of the thread is computed
ThreadOpen(i) ==
    /\ tpc[i] = "started"
    /\ \E isOpened \in BOOLEAN :
         IF ~ isOpened
         THEN /\ tpc' = [tpc EXCEPT ![i] = "done"]
              /\ failed' = [failed EXCEPT ![i] = "open"]
              /\ doneOrder' = Append(doneOrder, i)
              /\ UNCHANGED <<range, sec>>
         ELSE LET n == n_sec(meta, interval)
                  s == start_sec(n, n_threads, i)
                  e == end_sec(n, n_threads, i)
              IN  /\ range' = [range EXCEPT ![i] = <<s, e>>]
                  /\ sec' = [sec EXCEPT ![i] = s]
                  \* range(start_sec, end_sec, BATCH_SIZE) is empty: video.release()
                  /\ tpc' = [tpc EXCEPT ![i] = IF s < e THEN "loop" ELSE "done"]
                  /\ doneOrder' = IF s < e THEN doneOrder ELSE Append(doneOrder, i)
                  /\ UNCHANGED failed
    /\ UNCHANGED <<svars, xvars, n_threads, interval, meta, embedShort,
                   pc, k, all_bboxes, all_crops, all_embeddings,
                   thread_bboxes, thread_crops, thread_embeddings, disk, pending>>

\* one iteration of "for sec in range(start_sec, end_sec, BATCH_SIZE)": every
\* read of the batch succeeds (bad = -1) or the read of slot bad fails
ThreadBatch(i) ==
    /\ tpc[i] = "loop"
    /\ LET s == sec[i]
           e == range[i][2]
       IN  \E bad \in {-1} \cup batch_slots(s, e) :
           IF bad # -1
           THEN \* if not success: video.release(); return
                /\ tpc' = [tpc EXCEPT ![i] = "done"]
                /\ failed' = [failed EXCEPT ![i] = "read"]
                /\ doneOrder' = Append(doneOrder, i)
                /\ UNCHANGED <<sec, thread_bboxes, thread_crops, thread_embeddings>>
           ELSE LET frames == batch_frames(s, e)
                    detected_faces == [j \in 1 .. Len(frames) |-> face_detect(frames[j])]
                    embeddings == [j \in 1 .. Len(frames) |->
                                      embed(frames[j], detected_faces[j])]
                    crops == [j \in 1 .. Len(frames) |-> square_crops(detected_faces[j])]
                IN  /\ thread_bboxes' =
                          [thread_bboxes EXCEPT ![own_slot(i)] = @ \o detected_faces]
                    /\ thread_embeddings' =
                          [thread_embeddings EXCEPT ![own_slot(i)] = @ \o embeddings]
                    /\ thread_crops' =
                          [thread_crops EXCEPT ![own_slot(i)] = @ \o crops]
                    /\ sec' = [sec EXCEPT ![i] = s + BATCH_SIZE]
                    /\ tpc' = [tpc EXCEPT ![i] =
                                  IF s + BATCH_SIZE < e THEN "loop" ELSE "done"]
                    /\ doneOrder' = IF s + BATCH_SIZE < e THEN doneOrder
                                    ELSE Append(doneOrder, i)
                    /\ UNCHANGED failed
    /\ UNCHANGED <<svars, xvars, n_threads, interval, meta, embedShort,
                   pc, k, all_bboxes, all_crops, all_embeddings, range, disk, pending>>

(***************************************************************************)
(* The result handlers: flattening per-frame lists into (face_id, value).  *)
(***************************************************************************)
\* [(face_id, x) for face_id, x in enumerate(xs, start)]
enumerate_from(xs, start) == [j \in 1 .. Len(xs) |-> <<start + j - 1, xs[j]>>]

RECURSIVE bboxes_results_from(_, _, _, _)
bboxes_results_from(detected_faces, stride, i, result) ==
    IF i > Len(detected_faces) THEN result
    ELSE LET faces == detected_faces[i]
             faces_in_frame ==
                 [j \in 1 .. Len(faces) |->
                     <<Len(result) + j - 1,
                       [frame_num |-> (i - 1) * stride, bbox |-> faces[j]]>>]
         IN  bboxes_results_from(detected_faces, stride, i + 1, result \o faces_in_frame)

\* handle_face_bboxes_results: [(face_id, {'frame_num': n, 'bbox': bbox}), ...]
handle_face_bboxes_results(detected_faces, stride) ==
    bboxes_results_from(detected_faces, stride, 1, <<>>)

RECURSIVE embeddings_results_from(_, _, _)
embeddings_results_from(face_embeddings, i, result) ==
    IF i > Len(face_embeddings) THEN result
    ELSE embeddings_results_from(face_embeddings, i + 1,
             result \o enumerate_from(face_embeddings[i], Len(result)))

RECURSIVE embeddings_results_restart_from(_, _, _)
embeddings_results_restart_from(face_embeddings, i, result) ==
    IF i > Len(face_embeddings) THEN result
    ELSE embeddings_results_restart_from(face_embeddings, i + 1,
             result \o enumerate_from(face_embeddings[i], 0))

\* mutant: enumerate(embeddings) without the start len(result)
handle_face_embeddings_results_restart(face_embeddings) ==
    embeddings_results_restart_from(face_embeddings, 1, <<>>)

\* handle_face_embeddings_results: [(face_id, embedding), ...]
handle_face_embeddings_results(face_embeddings) ==
    embeddings_results_from(face_embeddings, 1, <<>>)

RECURSIVE crops_results_from(_, _, _)
crops_results_from(face_crops, i, result) ==
    IF i > Len(face_crops) THEN result
    ELSE crops_results_from(face_crops, i + 1,
             result \o enumerate_from(face_crops[i], Len(result)))

\* get_face_crops_results: [(face_id, crop), ...]
get_face_crops_results(face_crops) == crops_results_from(face_crops, 1, <<>>)

Range(f) == {f[x] : x \in DOMAIN f}

(***************************************************************************)
(* process_videos: the body of the loop for one video.                     *)
(***************************************************************************)
EmptyDisk ==
    [files |-> {}, metadata |-> <<>>, bboxes |-> <<>>, embeddings |-> <<>>, crops |-> {}]

\* for t in threads: t.start()
StartThread ==
    /\ pc = "start"
    /\ tpc' = [tpc EXCEPT ![k] = "started"]
    /\ IF k + 1 < n_threads
       THEN k' = k + 1 /\ pc' = pc
       ELSE k' = 0 /\ pc' = "join"
    /\ UNCHANGED <<svars, xvars, n_threads, interval, meta, embedShort,
                   all_bboxes, all_crops, all_embeddings, range, sec,
                   thread_bboxes, thread_crops, thread_embeddings, failed, doneOrder,
                   disk, pending>>

\* mutant: the main thread does not wait for thread i
JoinWithoutWaiting(i) == TRUE

\* t.join() returns once thread i has terminated
JoinReady(i) == tpc[i] = "done"

\* for t in threads: t.join()
JoinThread ==
    /\ pc = "join"
    /\ JoinReady(k)
    /\ IF k + 1 < n_threads
       THEN k' = k + 1 /\ pc' = pc
       ELSE k' = 0 /\ pc' = "merge"
    /\ UNCHANGED <<svars, xvars, n_threads, interval, meta, embedShort,
                   all_bboxes, all_crops, all_embeddings, tpc, range, sec,
                   thread_bboxes, thread_crops, thread_embeddings, failed, doneOrder,
                   disk, pending>>

\* mutant: the per-thread lists are read in the order the threads completed
MergeOrderByCompletion == doneOrder

\* mutant: the per-thread lists are read from the last thread to the first
MergeOrderReversed == [j \in 1 .. n_threads |-> n_threads - j]

\* for i in range(n_threads): the order in which the per-thread lists are read
MergeOrder == [j \in 1 .. n_threads |-> j - 1]

RECURSIVE ConcatIn(_, _)
ConcatIn(lists, order) ==
    IF order = <<>> THEN <<>>
    ELSE lists[Head(order)] \o ConcatIn(lists, Tail(order))

\* all_bboxes += thread_bboxes[i]; all_crops += ...; all_embeddings += ...
Merge ==
    /\ pc = "merge"
    /\ all_bboxes' = ConcatIn(thread_bboxes, MergeOrder)
    /\ all_crops' = ConcatIn(thread_crops, MergeOrder)
    /\ all_embeddings' = ConcatIn(thread_embeddings, MergeOrder)
    /\ pc' = "check"
    /\ UNCHANGED <<svars, xvars, n_threads, interval, meta, embedShort,
                   k, tpc, range, sec, thread_bboxes, thread_crops,
                   thread_embeddings, failed, doneOrder, disk, pending>>

\* mutant: only a list longer than target_sec counts as a mismatch
CountMismatchOver(target_sec) ==
    \/ Len(all_bboxes) > target_sec
    \/ Len(all_crops) > target_sec
    \/ Len(all_embeddings) > target_sec

\* any(len(x) != target_sec for x in [all_bboxes, all_crops, all_embeddings])
CountMismatch(target_sec) ==
    \/ Len(all_bboxes) # target_sec
    \/ Len(all_crops) # target_sec
    \/ Len(all_embeddings) # target_sec

\* the count check: on a mismatch the video is skipped ("continue")
Check ==
    /\ pc = "check"
    /\ pc' = IF CountMismatch(n_sec(meta, interval)) THEN "skipped" ELSE "save_metadata"
    /\ UNCHANGED <<svars, xvars, n_threads, interval, meta, embedShort,
                   k, all_bboxes, all_crops, all_embeddings, tpc, range, sec,
                   thread_bboxes, thread_crops, thread_embeddings, failed, doneOrder,
                   disk, pending>>

\* save_json(meta, metadata_outpath)
SaveMetadata ==
    /\ pc = "save_metadata"
    /\ disk' = [disk EXCEPT !.files = @ \cup {"metadata"}, !.metadata = <<meta>>]
    /\ pc' = "save_bboxes"
    /\ UNCHANGED <<svars, xvars, n_threads, interval, meta, embedShort,
                   k, all_bboxes, all_crops, all_embeddings, tpc, range, sec,
                   thread_bboxes, thread_crops, thread_embeddings, failed, doneOrder, pending>>

\* handle_face_bboxes_results(all_bboxes, meta['fps'] * interval, bbox_outpath)
SaveBboxes ==
    /\ pc = "save_bboxes"
    /\ disk' = [disk EXCEPT !.files = @ \cup {"bboxes"},
                            !.bboxes = handle_face_bboxes_results(
                                           all_bboxes, meta.fps * interval)]
    /\ pc' = "save_embeddings"
    /\ UNCHANGED <<svars, xvars, n_threads, interval, meta, embedShort,
                   k, all_bboxes, all_crops, all_embeddings, tpc, range, sec,
                   thread_bboxes, thread_crops, thread_embeddings, failed, doneOrder, pending>>

\* handle_face_embeddings_results(all_embeddings, embed_outpath)
SaveEmbeddings ==
    /\ pc = "save_embeddings"
    /\ disk' = [disk EXCEPT !.files = @ \cup {"embeddings"},
                            !.embeddings = handle_face_embeddings_results(all_embeddings)]
    /\ pc' = "save_crops"
    /\ UNCHANGED <<svars, xvars, n_threads, interval, meta, embedShort,
                   k, all_bboxes, all_crops, all_embeddings, tpc, range, sec,
                   thread_bboxes, thread_crops, thread_embeddings, failed, doneOrder, pending>>

\* handle_face_crops_results -> save_face_crops: os.makedirs(out_dirpath), then
\* one save_img task per (face_id, img) is submitted to the executor
SaveCrops ==
    /\ pc = "save_crops"
    /\ disk' = [disk EXCEPT !.files = @ \cup {"crops"}]
    /\ pending' = Range(get_face_crops_results(all_crops))
    /\ pc' = "save_crops_wait"
    /\ UNCHANGED <<svars, xvars, n_threads, interval, meta, embedShort,
                   k, all_bboxes, all_crops, all_embeddings, tpc, range, sec,
                   thread_bboxes, thread_crops, thread_embeddings, failed, doneOrder>>

\* save_img(img, fp) of one task, run by an executor thread
SaveImg(t) ==
    /\ pc = "save_crops_wait"
    /\ t \in pending
    /\ pending' = pending \ {t}
    /\ disk' = [disk EXCEPT !.crops = @ \cup {t}]
    /\ UNCHANGED <<svars, xvars, n_threads, interval, meta, embedShort,
                   pc, k, all_bboxes, all_crops, all_embeddings, tpc, range, sec,
                   thread_bboxes, thread_crops, thread_embeddings, failed, doneOrder>>

\* mutant: the executor is left without waiting for its tasks
ExecutorNotAwaited == TRUE

\* leaving "with ThreadPoolExecutor() as executor": every task has run
ExecutorDone == pending = {}

\* end of save_face_crops and of the loop body (done_sec += target_sec)
ExecutorExit ==
    /\ pc = "save_crops_wait"
    /\ ExecutorDone
    /\ pc' = "done"
    /\ UNCHANGED <<svars, xvars, n_threads, interval, meta, embedShort,
                   k, all_bboxes, all_crops, all_embeddings, tpc, range, sec,
                   thread_bboxes, thread_crops, thread_embeddings, failed, doneOrder,
                   disk, pending>>

\* no call of process_labeling_results is in progress
DecodeIdle ==
    /\ geometry = [n_cols |-> 1, block_size |-> 1, img_ids |-> <<>>]
    /\ aws_response = [CelebrityFaces |-> <<>>, UnrecognizedFaces |-> <<>>]
    /\ dpc = "idle"
    /\ labels = [keys |-> <<>>, val |-> <<>>]
    /\ decoded = <<>>

\* no call of process_video is in progress
VideoIdle ==
    /\ MONTAGE_WIDTH = 1
    /\ MONTAGE_HEIGHT = 1
    /\ img_files = <<>>
    /\ vpc = "idle"
    /\ futures = <<>>
    /\ fi = 0
    /\ completed = <<>>
    /\ video_labels = <<>>
    /\ identities = {}

\* the pool of main of the identification pass does not exist
PoolIdle ==
    /\ video_names = 0
    /\ next_video = 0
    /\ proc = <<>>

\* main of the identification pass has not been entered
MainIdle ==
    /\ AWS_ACCESS_KEY_ID = TRUE
    /\ AWS_SECRET_ACCESS_KEY = TRUE
    /\ overwrite = FALSE
    /\ in_path = <<>>
    /\ names = <<>>
    /\ made = {}
    /\ mpc = "idle"

\* process_videos is looked at for one video only: no list, no pruning, no loop
RunIdle ==
    /\ init_run = FALSE
    /\ force = FALSE
    /\ disable = {}
    /\ out_paths = <<>>
    /\ video_paths = <<>>
    /\ all_metadata = <<>>
    /\ rpc = "idle"
    /\ vid_id = 0
    /\ log = <<>>

\* no call of search_aws is in progress
SearchIdle ==
    /\ img_size = 0
    /\ spc = "idle"
    /\ attempt = 0
    /\ trace = <<>>
    /\ search_result = "none"

(***************************************************************************)
(* Initial states and specifications of the detection pass.                *)
(***************************************************************************)
\* <<fps, interval>> of the videos and runs considered
Rates == {<<1, 1>>, <<2, 3>>}

\* the sampled frame numbers of a video
SampledFrames(m, iv) == {frame_num(i, m, iv) : i \in 0 .. (n_sec(m, iv) - 1)}

InitVideo ==
    /\ n_threads \in 1 .. MaxThreads
    /\ \E n \in 0 .. MaxSlots, rate \in Rates :
         LET stride == rate[1] * rate[2]
         IN  /\ interval = rate[2]
             \* n whole strides and a remainder of 0 .. stride-1 frames
             /\ meta = [frames |-> n * stride + (n % stride), fps |-> rate[1]]
    /\ pc = "start"
    /\ k = 0
    /\ all_bboxes = <<>> /\ all_crops = <<>> /\ all_embeddings = <<>>
    /\ tpc = [i \in Threads |-> "new"]
    /\ range = [i \in Threads |-> <<>>]
    /\ sec = [i \in Threads |-> 0]
    /\ thread_bboxes = [i \in Threads |-> <<>>]
    /\ thread_crops = [i \in Threads |-> <<>>]
    /\ thread_embeddings = [i \in Threads |-> <<>>]
    /\ failed = [i \in Threads |-> "no"]
    /\ doneOrder = <<>>
    /\ disk = EmptyDisk
    /\ pending = {}
    /\ SearchIdle
    /\ DecodeIdle
    /\ VideoIdle
    /\ PoolIdle
    /\ MainIdle
    /\ RunIdle

\* the embedder honours its contract: one vector per crop
Init == InitVideo /\ embedShort = {}

\* the embedder is an opaque capability: it may return one vector too few
InitOpaque ==
    /\ InitVideo
    /\ embedShort \in {{}} \cup
          {{f} : f \in {g \in SampledFrames(meta, interval) : FaceCount(g) > 0}}

Next ==
    \/ StartThread
    \/ \E i \in Threads : ThreadOpen(i)
    \/ \E i \in Threads : ThreadBatch(i)
    \/ JoinThread
    \/ Merge
    \/ Check
    \/ SaveMetadata
    \/ SaveBboxes
    \/ SaveEmbeddings
    \/ SaveCrops
    \/ \E t \in pending : SaveImg(t)
    \/ ExecutorExit

Spec == Init /\ [][Next]_vars

SpecOpaque == InitOpaque /\ [][Next]_vars

(***************************************************************************)
(* search_aws: the retrying call to the recognition service.               *)
(***************************************************************************)
\* what client.recognize_celebrities can return
Responses == {"resp_a", "resp_b"}

\* mutant: delay = 2 * i
DelayLinear(i) == 2 * i

\* delay = 2 ** i
Delay(i) == 2 ^ i

\* assert len(img_data) <= 5 * 1024 * 1024
SearchEnter ==
    /\ spc = "entry"
    /\ IF img_size <= MaxImageBytes
       THEN spc' = "call" /\ search_result' = search_result
       ELSE spc' = "raised" /\ search_result' = "AssertionError"
    /\ UNCHANGED <<dvars, xvars, img_size, attempt, trace>>

\* resp = client.recognize_celebrities(Image={'Bytes': img_data}): it returns a
\* response (return resp) or raises (except Exception as e)
Recognize ==
    /\ spc = "call"
    /\ \E outcome \in Responses \cup {"error"} :
         IF outcome = "error"
         THEN /\ trace' = Append(trace, <<"call", attempt, "fail">>)
              /\ spc' = "sleep"
              /\ search_result' = search_result
         ELSE /\ trace' = Append(trace, <<"call", attempt, "ok">>)
              /\ spc' = "returned"
              /\ search_result' = outcome
    /\ UNCHANGED <<dvars, xvars, img_size, attempt>>

\* time.sleep(delay), then the next iteration; after the last iteration the raise
\* statement formats the variable e, which the except clause has unbound, so the
\* exception that propagates is an UnboundLocalError
Sleep ==
    /\ spc = "sleep"
    /\ trace' = Append(trace, <<"sleep", Delay(attempt)>>)
    /\ attempt' = attempt + 1
    /\ IF attempt + 1 < Attempts
       THEN spc' = "call" /\ search_result' = search_result
       ELSE spc' = "raised" /\ search_result' = "UnboundLocalError"
    /\ UNCHANGED <<dvars, xvars, img_size>>

\* the detection pass is not running
DetectIdle ==
    /\ n_threads = 1
    /\ interval = 1
    /\ meta = [frames |-> 0, fps |-> 1]
    /\ embedShort = {}
    /\ pc = "idle"
    /\ k = 0
    /\ all_bboxes = <<>> /\ all_crops = <<>> /\ all_embeddings = <<>>
    /\ tpc = [i \in Threads |-> "new"]
    /\ range = [i \in Threads |-> <<>>]
    /\ sec = [i \in Threads |-> 0]
    /\ thread_bboxes = [i \in Threads |-> <<>>]
    /\ thread_crops = [i \in Threads |-> <<>>]
    /\ thread_embeddings = [i \in Threads |-> <<>>]
    /\ failed = [i \in Threads |-> "no"]
    /\ doneOrder = <<>>
    /\ disk = EmptyDisk
    /\ pending = {}

InitSearch ==
    /\ DetectIdle
    /\ DecodeIdle
    /\ VideoIdle
    /\ PoolIdle
    /\ MainIdle
    /\ RunIdle
    /\ img_size \in (MaxImageBytes - SizeMargin) .. (MaxImageBytes + SizeMargin)
    /\ spc = "entry"
    /\ attempt = 0
    /\ trace = <<>>
    /\ search_result = "none"

NextSearch ==
    \/ SearchEnter
    \/ Recognize
    \/ Sleep

SpecSearch == InitSearch /\ [][NextSearch]_vars

\* the service call and time.sleep both return: every enabled step is taken
SpecSearchFair == SpecSearch /\ WF_vars(NextSearch)

(***************************************************************************)
(* Properties of the detection pass.                                       *)
(***************************************************************************)
\* n_slots of the video and the size q of a range
NSlots == (meta.frames \div meta.fps) \div interval
Q == NSlots \div n_threads

\* the range the partition assigns to worker i
RangeOf(i) == <<i * Q, IF i = n_threads - 1 THEN NSlots ELSE (i + 1) * Q>>

AllRangesComputed == \A i \in Threads : range[i] # <<>>

PostMerge == pc \in {"check", "skipped", "save_metadata", "save_bboxes",
                     "save_embeddings", "save_crops", "save_crops_wait", "done"}

\* C1: the range a worker computes is [i*q, (i+1)*q) for i < N-1 and
\* [(N-1)*q, n_slots) for the last worker, q = floor(n_slots/N); the ranges are
\* contiguous, in worker order, and every slot of [0, n_slots) lies in exactly
\* one of them (so they are pairwise disjoint and cover [0, n_slots)).
C1_RangesPartitionSlots ==
    /\ \A i \in Threads : range[i] # <<>> => range[i] = RangeOf(i)
    /\ AllRangesComputed =>
          /\ range[0][1] = 0
          /\ range[n_threads - 1][2] = NSlots
          /\ \A i \in Threads : range[i][1] <= range[i][2]
          /\ \A i \in Threads : i + 1 < n_threads => range[i][2] = range[i + 1][1]
          /\ \A x \in 0 .. (NSlots - 1) :
                Cardinality({i \in Threads : range[i][1] <= x /\ x < range[i][2]}) = 1

\* three workers have computed their ranges of a 17-slot video (remainder 2)
C1_Witness ==
    /\ n_threads = 3
    /\ NSlots = 17
    /\ range = [i \in Threads |-> IF i = 0 THEN <<0, 5>>
                                  ELSE IF i = 1 THEN <<5, 10>> ELSE <<10, 17>>]

\* number of slots worker i has emitted when it terminated: its whole range,
\* nothing when the video did not open, the completed batches when a read failed
Emitted(i) ==
    IF failed[i] = "open" THEN 0
    ELSE IF failed[i] = "read" THEN sec[i] - RangeOf(i)[1]
    ELSE RangeOf(i)[2] - RangeOf(i)[1]

\* per-frame values F(frame) of the slots worker i emitted, in slot order
EmittedBy(F(_), i) ==
    [j \in 1 .. Emitted(i) |-> F((RangeOf(i)[1] + j - 1) * meta.fps * interval)]

RECURSIVE InWorkerOrder(_, _)
InWorkerOrder(F(_), i) ==
    IF i >= n_threads THEN <<>> ELSE EmittedBy(F, i) \o InWorkerOrder(F, i + 1)

BboxesOf(f) == face_detect(f)
EmbeddingsOf(f) == embed(f, face_detect(f))
CropsOf(f) == square_crops(face_detect(f))

\* C2: after the join, the merged per-frame sequences are the workers' outputs in
\* worker-index order, a function of the video and of where each worker stopped,
\* whatever the interleaving and the completion order of the threads; the
\* face_ids written follow from the merged sequences alone.
C2_MergeIndependentOfScheduling ==
    /\ PostMerge =>
          /\ \A i \in Threads : tpc[i] = "done"
          /\ all_bboxes = InWorkerOrder(BboxesOf, 0)
          /\ all_embeddings = InWorkerOrder(EmbeddingsOf, 0)
          /\ all_crops = InWorkerOrder(CropsOf, 0)
    /\ "bboxes" \in disk.files =>
          disk.bboxes = handle_face_bboxes_results(InWorkerOrder(BboxesOf, 0),
                                                   meta.fps * interval)

\* three workers, each with output holding a face, completed in the order 2, 1, 0
\* and were merged
C2_Witness ==
    /\ pc = "check"
    /\ n_threads = 3
    /\ doneOrder = <<2, 1, 0>>
    /\ \A i \in Threads : \E j \in 1 .. Len(thread_bboxes[i]) : thread_bboxes[i][j] # <<>>

NoDecodeFailure == \A i \in Threads : failed[i] = "no"

\* the frames one worker (n_threads = 1) decodes: slot 0 .. n_slots-1, in order
OneWorker(F(_)) == [j \in 1 .. NSlots |-> F((j - 1) * meta.fps * interval)]

\* C3: without a decode failure, the video is persisted and the persisted
\* face_id -> (frame_num, bbox), face_id -> embedding and face_id -> crop
\* mappings are those of a run with one worker, for every worker count.
C3_SameAsOneWorker ==
    (pc \in {"done", "skipped"} /\ NoDecodeFailure) =>
        /\ pc = "done"
        /\ disk.bboxes = handle_face_bboxes_results(OneWorker(BboxesOf),
                                                    meta.fps * interval)
        /\ disk.embeddings = handle_face_embeddings_results(OneWorker(EmbeddingsOf))
        /\ disk.crops = Range(get_face_crops_results(OneWorker(CropsOf)))

\* three workers persisted a 17-slot video that holds faces
C3_Witness ==
    /\ pc = "done"
    /\ n_threads = 3
    /\ NSlots = 17
    /\ NoDecodeFailure
    /\ Len(disk.bboxes) > 2

\* (frame, position) of a tagged value comes before that of another
Before(a, b) == a[2] < b[2] \/ (a[2] = b[2] /\ a[3] < b[3])

\* C4: in each persisted artifact the face_ids are 0, 1, 2, ... without gap or
\* repeat, in ascending (slot, in-frame position) order, and a face has the same
\* face_id in the bounding boxes, the embeddings and the crops.
C4_FaceIdsDenseAndJoinable ==
    /\ "bboxes" \in disk.files =>
          /\ \A j \in 1 .. Len(disk.bboxes) : disk.bboxes[j][1] = j - 1
          /\ \A i, j \in 1 .. Len(disk.bboxes) :
                i < j => Before(disk.bboxes[i][2].bbox, disk.bboxes[j][2].bbox)
    /\ "embeddings" \in disk.files =>
          /\ \A j \in 1 .. Len(disk.embeddings) : disk.embeddings[j][1] = j - 1
          /\ \A i, j \in 1 .. Len(disk.embeddings) :
                i < j => Before(disk.embeddings[i][2], disk.embeddings[j][2])
          /\ Len(disk.embeddings) = Len(disk.bboxes)
          /\ \A j \in 1 .. Len(disk.embeddings) :
                /\ disk.embeddings[j][2][2] = disk.bboxes[j][2].bbox[2]
                /\ disk.embeddings[j][2][3] = disk.bboxes[j][2].bbox[3]
    /\ \A t, u \in disk.crops : t[1] = u[1] => t = u
    /\ \A t \in disk.crops :
          /\ t[1] + 1 \in 1 .. Len(disk.bboxes)
          /\ t[2][2] = disk.bboxes[t[1] + 1][2].bbox[2]
          /\ t[2][3] = disk.bboxes[t[1] + 1][2].bbox[3]
    /\ pc = "done" => {t[1] : t \in disk.crops} = 0 .. (Len(disk.bboxes) - 1)

\* a persisted video with a frame that holds two faces after an earlier face
C4_Witness ==
    /\ pc = "done"
    /\ \E j \in 2 .. Len(disk.bboxes) :
          /\ disk.bboxes[j][2].bbox[3] = 2
          /\ disk.bboxes[j - 1][2].bbox[2] = disk.bboxes[j][2].bbox[2]
          /\ j > 2

\* a worker's read failed, or it could not open the video and its range is not empty
DecodeFailure ==
    \E i \in Threads :
        \/ failed[i] = "read"
        \/ failed[i] = "open" /\ RangeOf(i)[1] < RangeOf(i)[2]

\* C5: once a worker's read has failed, or a worker with a non-empty range could
\* not open the video, nothing is ever written for the video: the merged frame
\* counts differ from n_slots and the video is skipped.
C5_DecodeFailureWritesNothing ==
    DecodeFailure =>
        /\ disk = EmptyDisk
        /\ pending = {}
        /\ pc \in {"start", "join", "merge", "check", "skipped"}
        /\ PostMerge => Len(all_bboxes) # NSlots

\* a video skipped after one worker's read failed while a sibling emitted frames
C5_Witness ==
    /\ pc = "skipped"
    /\ \E i, j \in Threads :
          /\ failed[i] = "read"
          /\ failed[j] = "no"
          /\ thread_bboxes[j] # <<>>

RECURSIVE NumFaces(_)
\* number of faces (or embeddings, or crops) in a merged per-frame sequence
NumFaces(perFrame) ==
    IF perFrame = <<>> THEN 0 ELSE Len(Head(perFrame)) + NumFaces(Tail(perFrame))

C7_WritesOnlyAfterJoinAndCheck ==
    (disk # EmptyDisk \/ pending # {}) =>
        /\ \A i \in Threads : tpc[i] = "done"
        /\ pc \in {"save_bboxes", "save_embeddings", "save_crops",
                   "save_crops_wait", "done"}
        /\ Len(all_bboxes) = NSlots
        /\ Len(all_crops) = NSlots
        /\ Len(all_embeddings) = NSlots

\* the first artifact of a video processed by three workers has been written
C7_Witness ==
    /\ disk.files = {"metadata"}
    /\ n_threads = 3
    /\ NSlots > 0

AllFiles == {"metadata", "bboxes", "embeddings", "crops"}

\* every artifact of the video is in the output directory
AllArtifacts ==
    /\ disk.files = AllFiles
    /\ disk.crops = Range(get_face_crops_results(all_crops))

\* C8 as stated: at every moment a reader of the output directory sees none or
\* all of the video's artifacts.
C8_AllOrNothingAtEveryMoment == disk = EmptyDisk \/ AllArtifacts

\* C8 as amended: a reader sees none of the artifacts up to the count check and
\* for a skipped video, and all of them once the video's iteration has ended;
\* in between they appear one at a time in the order metadata, bounding boxes,
\* embeddings, crops directory, crop images.
C8_AllOrNothingOutsideSavePhase ==
    /\ pc \in {"start", "join", "merge", "check", "skipped", "save_metadata"}
          => disk = EmptyDisk
    /\ pc = "done" => AllArtifacts
    /\ disk.files \in {{}, {"metadata"}, {"metadata", "bboxes"},
                       {"metadata", "bboxes", "embeddings"}, AllFiles}
    /\ disk.crops # {} =>
          /\ "crops" \in disk.files
          /\ disk.crops \subseteq Range(get_face_crops_results(all_crops))

\* some crop images of the video are written and others are not yet
C8_Witness ==
    /\ pc = "save_crops_wait"
    /\ disk.crops # {}
    /\ pending # {}

\* the lists and the position of every worker other than i are left as they were
OthersUntouched(i) ==
    \A j \in Threads \ {i} :
        /\ thread_bboxes'[j] = thread_bboxes[j]
        /\ thread_embeddings'[j] = thread_embeddings[j]
        /\ thread_crops'[j] = thread_crops[j]
        /\ tpc'[j] = tpc[j]
        /\ sec'[j] = sec[j]
        /\ range'[j] = range[j]
        /\ failed'[j] = failed[j]

\* per-frame values F(frame) of every slot of the range of worker j, in slot order
WholeRange(F(_), j) ==
    [x \in 1 .. (RangeOf(j)[2] - RangeOf(j)[1]) |->
        F((RangeOf(j)[1] + x - 1) * meta.fps * interval)]

\* worker j returned from the end of its loop, not from a failure of its own
RanToItsEnd(j) == tpc[j] = "done" /\ failed[j] = "no"

\* C24: a step of worker i (opening the video, or one batch) changes no list and
\* no position of another worker; while the workers run nothing else writes to
\* the per-worker lists; and a worker that did not fail itself ends with every
\* frame of its own range emitted, in slot order, also when a sibling stopped on
\* a decode failure.
C24_WorkerWritesOnlyItsSlots ==
    /\ [][\A i \in Threads :
              (ThreadOpen(i) \/ ThreadBatch(i)) => OthersUntouched(i)]_vars
    /\ [][(\A i \in Threads : ~ (ThreadOpen(i) \/ ThreadBatch(i))) =>
              UNCHANGED <<thread_bboxes, thread_embeddings, thread_crops>>]_vars
    /\ [](\A j \in Threads :
              RanToItsEnd(j) =>
                  /\ thread_bboxes[j] = WholeRange(BboxesOf, j)
                  /\ thread_embeddings[j] = WholeRange(EmbeddingsOf, j)
                  /\ thread_crops[j] = WholeRange(CropsOf, j))

\* the first of three workers stopped on a failed read; the last one, which was
\* still in its loop then, ended later with the seven frames of its range
C24_Witness ==
    /\ n_threads = 3
    /\ NSlots = 17
    /\ failed[0] = "read"
    /\ RanToItsEnd(2)
    /\ Len(doneOrder) >= 2
    /\ doneOrder[1] = 0
    /\ Len(thread_bboxes[2]) = 7
    /\ thread_bboxes[0] = <<>>

\* the slot of the entry at position p (1-based) of a merged per-frame list
SlotAt(p) == p - 1

\* the frame worker thread_id sought and decoded for slot i of its range
FrameSought(i) == frame_num(i, meta, interval)

\* C26: whenever the bounding boxes of a video are persisted, every frame of the
\* merged list is at the position of its slot (the faces at position p were
\* detected in the frame sought for slot p - 1), and the frame_num stored with a
\* face is the number of the frame it was detected in, for every worker count
\* and every number of slots; frame numbers are integers here.
C26_FrameNumIsFrameSought ==
    "bboxes" \in disk.files =>
        /\ Len(all_bboxes) = NSlots
        /\ \A p \in 1 .. Len(all_bboxes) :
              all_bboxes[p] = face_detect(FrameSought(SlotAt(p)))
        /\ \A j \in 1 .. Len(disk.bboxes) :
              /\ disk.bboxes[j][2].frame_num = disk.bboxes[j][2].bbox[2]
              /\ \E i \in 0 .. (NSlots - 1) :
                    /\ disk.bboxes[j][2].frame_num = FrameSought(i)
                    /\ disk.bboxes[j][2].bbox \in Range(all_bboxes[i + 1])

\* the bounding boxes of a 17-slot video sampled every 6 frames by three workers
\* are persisted, with a face in a frame of the last worker's range
C26_Witness ==
    /\ "bboxes" \in disk.files
    /\ n_threads = 3
    /\ NSlots = 17
    /\ meta.fps * interval = 6
    /\ \E j \in 1 .. Len(disk.bboxes) : disk.bboxes[j][2].frame_num >= 10 * 6

(***************************************************************************)
(* Properties of search_aws.                                               *)
(***************************************************************************)
IsCall(ev) == ev[1] = "call"
IsFailedCall(ev) == ev[1] = "call" /\ ev[3] = "fail"
IsSleep(ev) == ev[1] = "sleep"

NumCalls == Len(SelectSeq(trace, IsCall))
NumFailed == Len(SelectSeq(trace, IsFailedCall))
Sleeps == SelectSeq(trace, IsSleep)

\* at most 10 calls, none after a successful one, whose response is returned
C9_CallsBounded ==
    /\ NumCalls <= 10
    /\ \A j \in 1 .. Len(trace) :
          (IsCall(trace[j]) /\ trace[j][3] = "ok") => j = Len(trace)
    /\ spc = "returned" <=>
          (trace # <<>> /\ IsCall(trace[Len(trace)]) /\ trace[Len(trace)][3] = "ok")
    /\ spc = "returned" => search_result \in Responses

\* C9 as stated: at most 10 calls, none after the first success, and a fatal
\* error is raised exactly when all 10 calls have failed.
C9_RaisesExactlyOnExhaustion ==
    /\ C9_CallsBounded
    /\ spc = "raised" <=> (NumFailed = 10 /\ Len(Sleeps) = 10)

\* C9 as amended: at most 10 calls, none after the first success, whose response
\* is returned; a fatal error is raised exactly when all 10 calls have failed or
\* the payload is larger than 5 MiB (and then no call is made); search_aws
\* always terminates.
C9_RaisesOnExhaustionOrOversize ==
    /\ [](/\ C9_CallsBounded
          /\ spc = "raised" =>
                \/ NumFailed = 10 /\ Len(Sleeps) = 10
                \/ img_size > 5242880 /\ trace = <<>>
          /\ (NumFailed = 10 /\ Len(Sleeps) = 10) => spc = "raised"
          /\ (img_size > 5242880 /\ spc # "entry") => (spc = "raised" /\ trace = <<>>))
    /\ <>(spc \in {"returned", "raised"})

\* all ten calls failed and the error was raised
C9_Witness ==
    /\ spc = "raised"
    /\ NumFailed = 10
    /\ img_size <= 5242880

\* C10: a wait follows each failed call and only a failed call; the wait after
\* failed attempt k is 2^k seconds, so the waits are 1, 2, 4, ..., 512 in order;
\* there is no wait before the first attempt and none after a successful one.
C10_BackoffSchedule ==
    /\ \A j \in 1 .. Len(trace) :
          IsSleep(trace[j]) =>
              /\ j > 1
              /\ IsFailedCall(trace[j - 1])
              /\ trace[j][2] = 2 ^ trace[j - 1][2]
    /\ \A j \in 1 .. Len(trace) :
          IsFailedCall(trace[j]) =>
              IF j < Len(trace) THEN IsSleep(trace[j + 1]) ELSE spc = "sleep"
    /\ \A j \in 1 .. Len(trace) :
          (IsCall(trace[j]) /\ trace[j][3] = "ok") => j = Len(trace)
    /\ \A j \in 1 .. Len(trace) :
          IsCall(trace[j]) => trace[j][2] = Len(SelectSeq(SubSeq(trace, 1, j - 1), IsCall))
    /\ Len(Sleeps) <= 10
    /\ \A j \in 1 .. Len(Sleeps) :
          Sleeps[j][2] = <<1, 2, 4, 8, 16, 32, 64, 128, 256, 512>>[j]
    /\ (spc = "raised" /\ trace # <<>>) => Len(Sleeps) = 10

\* the call succeeded at the fourth attempt, after waits of 1, 2 and 4 seconds
C10_Witness ==
    /\ spc = "returned"
    /\ Sleeps = <<<<"sleep", 1>>, <<"sleep", 2>>, <<"sleep", 4>>>>
    /\ Len(trace) = 7

(***************************************************************************)
(* C11: an oversize payload fails without touching the service.            *)
(***************************************************************************)
\* the limit as the claim states it
FiveMiB == 5 * 1024 * 1024

\* C11: when the payload handed to search_aws is larger than 5 MiB, the call
\* fails at once with the assertion's error: no call to the recognition
\* service is made and no backoff wait occurs, at any moment of the run.
C11_OversizeFailsWithoutCalls ==
    img_size > FiveMiB =>
        /\ spc \in {"entry", "raised"}
        /\ trace = <<>>
        /\ attempt = 0
        /\ spc = "raised" => search_result = "AssertionError"

C11_Witness ==
    /\ img_size > FiveMiB
    /\ spc = "raised"
    /\ search_result = "AssertionError"
    /\ trace = <<>>

(***************************************************************************)
(* Part III  process_labeling_results: decoding a response of the service  *)
(*           against the geometry of the montage that was sent.            *)
(*                                                                         *)
(* A detection is a record [Name, MatchConfidence, cx, cy].  The service   *)
(* reports a normalized bounding box; the code only uses its centre,       *)
(* center_x = (x0 + x1) / 2 * width.  cx and cy are that centre in half    *)
(* pixels (cx = 2 * center_x), so that the centre of a cell of odd size is *)
(* representable; residuals and L1 distances are in half pixels as well.   *)
(* A centre outside the montage (negative, or beyond width or height) is   *)
(* the centre of a box that lies mostly outside the image.                 *)
(***************************************************************************)
Abs(x) == IF x < 0 THEN -x ELSE x

\* half_block_size = int(block_size / 2)
half_block_size(block_size) == block_size \div 2

\* sixth_block_size = int(block_size / 6)
sixth_block_size(block_size) == block_size \div 6

\* residual_x = abs(center_x % block_size - half_block_size), in half pixels
residual(c, block_size) == Abs((c % (2 * block_size)) - 2 * half_block_size(block_size))

\* grid_x = math.floor(center_x / block_size)
grid(c, block_size) == c \div (2 * block_size)

\* mutant of grid_idx: column-major index
grid_idx_column_major(face, n_cols, block_size) ==
    grid(face.cx, block_size) * n_cols + grid(face.cy, block_size)

\* idx = grid_y * n_cols + grid_x
grid_idx(face, n_cols, block_size) ==
    grid(face.cy, block_size) * n_cols + grid(face.cx, block_size)

\* l1_dist = residual_x + residual_y
l1_dist(face, block_size) == residual(face.cx, block_size) + residual(face.cy, block_size)

\* the dict labels: its keys in insertion order and the value of each key,
\* a tuple <<Name, MatchConfidence, l1_dist, grid_x, grid_y>>
EmptyLabels == [keys |-> <<>>, val |-> <<>>]

Keys(dict) == DOMAIN dict.val

\* labels[face_id] = face_label
SetLabel(dict, face_id, face_label) ==
    [keys |-> IF face_id \in Keys(dict) THEN dict.keys
              ELSE Append(dict.keys, face_id),
     val  |-> [f \in Keys(dict) \cup {face_id} |->
                  IF f = face_id THEN face_label ELSE dict.val[f]]]

\* del labels[face_id]
DelLabel(dict, face_id) ==
    [keys |-> SelectSeq(dict.keys, LAMBDA f : f # face_id),
     val  |-> [f \in Keys(dict) \ {face_id} |-> dict.val[f]]]

\* mutant of closer: a candidate at the same distance replaces the one held
closer_or_equal(held, l1) == held >= l1

\* mutant of closer: the candidate farther from the centre is kept
farther(held, l1) == held < l1

\* mutant of closer: the candidate listed last is kept
any_distance(held, l1) == held = held /\ l1 = l1

\* labels[face_id][2] > l1_dist
closer(held, l1) == held > l1

\* idx >= 0 and idx < len(img_ids)
in_range(idx, img_ids) == idx >= 0 /\ idx < Len(img_ids)

\* mutant of near_centre: a residual equal to sixth_block_size is accepted
near_centre_inclusive(face, block_size) ==
    /\ residual(face.cx, block_size) <= 2 * sixth_block_size(block_size)
    /\ residual(face.cy, block_size) <= 2 * sixth_block_size(block_size)

\* residual_x < sixth_block_size and residual_y < sixth_block_size
near_centre(face, block_size) ==
    /\ residual(face.cx, block_size) < 2 * sixth_block_size(block_size)
    /\ residual(face.cy, block_size) < 2 * sixth_block_size(block_size)

\* residual_x < half_block_size and residual_y < half_block_size
in_cell(face, block_size) ==
    /\ residual(face.cx, block_size) < 2 * half_block_size(block_size)
    /\ residual(face.cy, block_size) < 2 * half_block_size(block_size)

\* the body of the loop over aws_response['CelebrityFaces']
recognized_face(dict, face, n_cols, block_size, img_ids) ==
    LET idx == grid_idx(face, n_cols, block_size)
    IN  IF near_centre(face, block_size) /\ in_range(idx, img_ids)
        THEN LET face_id == img_ids[idx + 1]
                 face_label == <<face.Name, face.MatchConfidence,
                                 l1_dist(face, block_size),
                                 grid(face.cx, block_size), grid(face.cy, block_size)>>
             IN  IF face_id \in Keys(dict)
                 THEN IF closer(dict.val[face_id][3], face_label[3])
                      THEN SetLabel(dict, face_id, face_label)
                      ELSE dict
                 ELSE SetLabel(dict, face_id, face_label)
        ELSE dict

\* the body of the loop over aws_response['UnrecognizedFaces']
unrecognized_face(dict, face, n_cols, block_size, img_ids) ==
    LET idx == grid_idx(face, n_cols, block_size)
    IN  IF in_cell(face, block_size) /\ in_range(idx, img_ids)
        THEN LET face_id == img_ids[idx + 1]
             IN  IF face_id \in Keys(dict)
                      /\ closer(dict.val[face_id][3], l1_dist(face, block_size))
                 THEN DelLabel(dict, face_id)
                 ELSE dict
        ELSE dict

\* for face in aws_response['CelebrityFaces']: the dict after faces[1 .. n]
RECURSIVE recognized_loop(_, _, _, _, _)
recognized_loop(faces, n, n_cols, block_size, img_ids) ==
    IF n = 0 THEN EmptyLabels
    ELSE recognized_face(recognized_loop(faces, n - 1, n_cols, block_size, img_ids),
                         faces[n], n_cols, block_size, img_ids)

\* for face in aws_response['UnrecognizedFaces']: the dict after faces[1 .. n]
RECURSIVE unrecognized_loop(_, _, _, _, _, _)
unrecognized_loop(dict, faces, n, n_cols, block_size, img_ids) ==
    IF n = 0 THEN dict
    ELSE unrecognized_face(unrecognized_loop(dict, faces, n - 1, n_cols, block_size, img_ids),
                           faces[n], n_cols, block_size, img_ids)

\* return [(k, v[0], v[1]) for k, v in labels.items()]
labels_list(dict) ==
    [i \in 1 .. Len(dict.keys) |->
        <<dict.keys[i], dict.val[dict.keys[i]][1], dict.val[dict.keys[i]][2]>>]

\* process_labeling_results(n_cols, block_size, img_ids, aws_response)
process_labeling_results(n_cols, block_size, img_ids, response) ==
    labels_list(
        unrecognized_loop(
            recognized_loop(response.CelebrityFaces,
                            Len(response.CelebrityFaces),
                            n_cols, block_size, img_ids),
            response.UnrecognizedFaces, Len(response.UnrecognizedFaces),
            n_cols, block_size, img_ids))

(***************************************************************************)
(* Part IV   process_video and submit_images_for_labeling: the crops of a  *)
(*           video are cut into chunks of MONTAGE_WIDTH * MONTAGE_HEIGHT,  *)
(*           each chunk is a task of the thread pool, and the futures are  *)
(*           drained in submission order.                                  *)
(*                                                                         *)
(* A crop file is represented by its face_id (int(get_base_name(x))).      *)
(***************************************************************************)
\* meta['block_dim'] of every montage
block_dim == 12

\* len(montage_bytes): the encoded sizes a montage can have
MontageSizes == {MaxImageBytes - 1, MaxImageBytes, MaxImageBytes + 1}

\* <<MONTAGE_WIDTH, MONTAGE_HEIGHT>> of the configurations considered
Grids == {<<2, 1>>, <<2, 2>>}

\* the centre of the cell of the nth crop placed (nth = 0, 1, ...), in half pixels
cell_centre(nth, n_cols, block_size) ==
    [cx |-> 2 * ((nth % n_cols) * block_size) + block_size,
     cy |-> 2 * ((nth \div n_cols) * block_size) + block_size]

\* the answer of the service to a montage: it recognizes the face of every crop,
\* with a box centred on the cell of the crop
recognize_celebrities(img_ids, n_cols, block_size) ==
    [CelebrityFaces |->
        [j \in 1 .. Len(img_ids) |->
            [Name |-> <<"celebrity", img_ids[j]>>,
             MatchConfidence |-> 99,
             cx |-> cell_centre(j - 1, n_cols, block_size).cx,
             cy |-> cell_centre(j - 1, n_cols, block_size).cy]],
     UnrecognizedFaces |-> <<>>]

\* mutant of needs_split: split only above the limit
needs_split_above(size) == size > MaxImageBytes

\* if len(montage_bytes) >= 5 * 1024 * 1024
needs_split(size) == size >= MaxImageBytes

\* search_aws as its caller sees it: the assertion fails on an oversize payload;
\* otherwise the service answers within ten attempts, or the loop is exhausted
search_aws(size, answers) ==
    IF size > MaxImageBytes THEN "AssertionError"
    ELSE IF answers THEN "response"
    ELSE "UnboundLocalError"

\* a future that has not run yet
PendingFuture(img_span) ==
    [img_span |-> img_span, state |-> "pending", result |-> <<>>,
     size |-> 0, montages |-> <<>>, calls |-> <<>>]

\* submit_images_for_labeling(crops_path, img_files): the future of the chunk once
\* the task has run.  size, size_1 and size_2 are the encoded sizes of the montages
\* built; answers_1 and answers_2 tell whether the service answers the calls.
\* montages and calls record, in order, the crop lists create_montage_bytes and
\* search_aws were called with.
submit_images_for_labeling(img_span, n_cols, size, size_1, size_2, answers_1, answers_2) ==
    IF needs_split(size)
    THEN LET half == Len(img_span) \div 2
             img_ids_1 == SubSeq(img_span, 1, half)
             img_ids_2 == SubSeq(img_span, half + 1, Len(img_span))
             res_1 == search_aws(size_1, answers_1)
             res_2 == search_aws(size_2, answers_2)
             call_1 == [img_ids |-> img_ids_1, size |-> size_1, outcome |-> res_1]
             call_2 == [img_ids |-> img_ids_2, size |-> size_2, outcome |-> res_2]
             labels_1 == process_labeling_results(n_cols, block_dim, img_ids_1,
                            recognize_celebrities(img_ids_1, n_cols, block_dim))
             labels_2 == process_labeling_results(n_cols, block_dim, img_ids_2,
                            recognize_celebrities(img_ids_2, n_cols, block_dim))
             built == <<img_span, img_ids_1, img_ids_2>>
         IN  IF res_1 # "response"
             THEN [img_span |-> img_span, state |-> "error", result |-> res_1,
                   size |-> size, montages |-> built, calls |-> <<call_1>>]
             ELSE IF res_2 # "response"
             THEN [img_span |-> img_span, state |-> "error", result |-> res_2,
                   size |-> size, montages |-> built, calls |-> <<call_1, call_2>>]
             ELSE [img_span |-> img_span, state |-> "done",
                   result |-> labels_1 \o labels_2,
                   size |-> size, montages |-> built, calls |-> <<call_1, call_2>>]
    ELSE LET res == search_aws(size, answers_1)
             call == [img_ids |-> img_span, size |-> size, outcome |-> res]
         IN  IF res # "response"
             THEN [img_span |-> img_span, state |-> "error", result |-> res,
                   size |-> size, montages |-> <<img_span>>, calls |-> <<call>>]
             ELSE [img_span |-> img_span, state |-> "done",
                   result |-> process_labeling_results(n_cols, block_dim, img_span,
                                 recognize_celebrities(img_span, n_cols, block_dim)),
                   size |-> size, montages |-> <<img_span>>, calls |-> <<call>>]

\* sorted(os.listdir(crops_path), key=lambda x: int(get_base_name(x))): the
\* least face_id (the first listed of equals) comes first, then the rest sorted
RECURSIVE sorted_by_face_id(_)
sorted_by_face_id(listing) ==
    IF listing = <<>> THEN <<>>
    ELSE LET least == CHOOSE j \in DOMAIN listing :
                          \A j2 \in DOMAIN listing :
                              \/ listing[j] < listing[j2]
                              \/ listing[j] = listing[j2] /\ j <= j2
             rest == [x \in 1 .. (Len(listing) - 1) |->
                         IF x < least THEN listing[x] ELSE listing[x + 1]]
         IN  <<listing[least]>> \o sorted_by_face_id(rest)

\* what os.listdir can return for a crops directory of n crops 0.png .. (n-1).png:
\* the files in any order
Listings(n) == {[j \in 1 .. n |-> f[j] - 1] : f \in Permutations(1 .. n)}

\* img_files = sorted(os.listdir(crops_path), key=...)
ListCrops ==
    /\ vpc = "list"
    /\ \E n \in 0 .. MaxImgs : \E listing \in Listings(n) :
          img_files' = sorted_by_face_id(listing)
    /\ vpc' = "submit"
    /\ UNCHANGED <<dvars, svars, wvars, kvars, pvars, MONTAGE_WIDTH, MONTAGE_HEIGHT,
                   futures, fi, completed, video_labels, identities>>

\* the crops that belong to chunks submitted so far
Submitted == Len(futures) * (MONTAGE_WIDTH * MONTAGE_HEIGHT)

\* for i in range(0, len(img_files), n_cols * n_rows):
\*     futures.append(executor.submit(submit_images_for_labeling, crops_path, img_span))
Submit ==
    /\ vpc = "submit"
    /\ Submitted < Len(img_files)
    /\ futures' = Append(futures,
          PendingFuture(SubSeq(img_files, Submitted + 1,
              Min(Submitted + MONTAGE_WIDTH * MONTAGE_HEIGHT, Len(img_files)))))
    /\ UNCHANGED <<dvars, svars, wvars, kvars, pvars, MONTAGE_WIDTH, MONTAGE_HEIGHT,
                   img_files, vpc, fi, completed, video_labels, identities>>

\* a thread of the executor runs the task of chunk c.  A montage of a single crop
\* stays far below the limit.
RunChunk(c) ==
    /\ futures[c].state = "pending"
    /\ \E size \in MontageSizes, size_1 \in MontageSizes, size_2 \in MontageSizes,
          answers_1 \in BOOLEAN, answers_2 \in BOOLEAN :
         /\ Len(futures[c].img_span) = 1 => size < MaxImageBytes
         /\ futures' = [futures EXCEPT ![c] =
               submit_images_for_labeling(futures[c].img_span, MONTAGE_WIDTH,
                   size, size_1, size_2, answers_1, answers_2)]
    /\ completed' = Append(completed, c)
    /\ UNCHANGED <<dvars, svars, wvars, kvars, pvars, MONTAGE_WIDTH, MONTAGE_HEIGHT,
                   img_files, vpc, fi, video_labels, identities>>

\* the end of the with block: ThreadPoolExecutor.__exit__ waits for every task
ExecutorShutdown ==
    /\ vpc = "submit"
    /\ Submitted >= Len(img_files)
    /\ \A c \in 1 .. Len(futures) : futures[c].state # "pending"
    /\ vpc' = "drain"
    /\ fi' = 1
    /\ UNCHANGED <<dvars, svars, wvars, kvars, pvars, MONTAGE_WIDTH, MONTAGE_HEIGHT,
                   img_files, futures, completed, video_labels, identities>>

\* mutant of drain_order: the futures are read in the order they completed
as_completed == completed

\* for future in futures: the futures are read in the order of the list
drain_order == [c \in 1 .. Len(futures) |-> c]

\* for future in futures:
\*     if future.done() and not future.cancelled():
\*         video_labels.extend(future.result())
\* future.result() raises the exception the task ended with
Drain ==
    /\ vpc = "drain"
    /\ fi <= Len(futures)
    /\ IF futures[drain_order[fi]].state = "done"
       THEN /\ video_labels' = video_labels \o futures[drain_order[fi]].result
            /\ fi' = fi + 1
            /\ vpc' = vpc
       ELSE /\ vpc' = "raised"
            /\ UNCHANGED <<fi, video_labels>>
    /\ UNCHANGED <<dvars, svars, wvars, kvars, pvars, MONTAGE_WIDTH, MONTAGE_HEIGHT,
                   img_files, futures, completed, identities>>

\* save_json(video_labels, identities_outpath)
SaveIdentities ==
    /\ vpc = "drain"
    /\ fi > Len(futures)
    /\ identities' = {video_labels}
    /\ vpc' = "saved"
    /\ UNCHANGED <<dvars, svars, wvars, kvars, pvars, MONTAGE_WIDTH, MONTAGE_HEIGHT,
                   img_files, futures, fi, completed, video_labels>>

InitIdentify ==
    /\ DetectIdle
    /\ SearchIdle
    /\ DecodeIdle
    /\ PoolIdle
    /\ MainIdle
    /\ RunIdle
    /\ \E g \in Grids : MONTAGE_WIDTH = g[1] /\ MONTAGE_HEIGHT = g[2]
    /\ img_files = <<>>
    /\ vpc = "list"
    /\ futures = <<>>
    /\ fi = 0
    /\ completed = <<>>
    /\ video_labels = <<>>
    /\ identities = {}

NextIdentify ==
    \/ ListCrops
    \/ Submit
    \/ \E c \in 1 .. Len(futures) : RunChunk(c)
    \/ ExecutorShutdown
    \/ Drain
    \/ SaveIdentities

SpecIdentify == InitIdentify /\ [][NextIdentify]_vars

(***************************************************************************)
(* Properties of process_video and submit_images_for_labeling.             *)
(***************************************************************************)
\* process_video has ended, by returning or by raising
VideoEnded == vpc \in {"saved", "raised"}

\* the chunks whose task ended with an exception
FailedChunks == {c \in 1 .. Len(futures) : futures[c].state = "error"}

\* the labels of the chunks 1 .. n that did not fail, in chunk order
RECURSIVE LabelsOfOthers(_)
LabelsOfOthers(n) ==
    IF n = 0 THEN <<>>
    ELSE IF futures[n].state = "done"
         THEN LabelsOfOthers(n - 1) \o futures[n].result
         ELSE LabelsOfOthers(n - 1)

\* C12: when a montage chunk of a video fails fatally (size violation after the
\* split, or retry exhaustion), the chunk contributes no labels and the labels of
\* all other chunks of the video are still collected and persisted: once
\* process_video has ended, the identities file holds exactly the labels of the
\* chunks that did not fail.
C12_FailedChunkLosesOnlyItsLabels ==
    (VideoEnded /\ FailedChunks # {}) =>
        identities = {LabelsOfOthers(Len(futures))}

\* the chunks whose task has run
RanChunks == {c \in 1 .. Len(futures) : futures[c].state # "pending"}

\* the chunk was split: create_montage_bytes was called for two halves
WasSplit(f) == Len(f.montages) = 3

\* the two contiguous halves: the first floor(n/2) crops, then the rest
FirstHalf(img_span) == SubSeq(img_span, 1, Len(img_span) \div 2)
SecondHalf(img_span) == SubSeq(img_span, Len(img_span) \div 2 + 1, Len(img_span))

\* the crop lists of the calls made for the chunk, in order
CallIds(f) == [j \in 1 .. Len(f.calls) |-> f.calls[j].img_ids]

\* C13 as stated: a chunk is split exactly when its montage's encoded size exceeds
\* 5 MiB and submitted as one single call exactly when the size is at most 5 MiB;
\* when split, it is split once into the first floor(n/2) crops and the rest, each
\* half gets its own montage, its own call and its own face_id list, and no half
\* is split again.
C13_SplitExactlyAboveLimit ==
    \A c \in RanChunks :
        LET f == futures[c]
        IN  /\ WasSplit(f) <=> f.size > FiveMiB
            /\ (f.size <= FiveMiB) <=> CallIds(f) = <<f.img_span>>
            /\ WasSplit(f) =>
                  /\ f.montages = <<f.img_span, FirstHalf(f.img_span), SecondHalf(f.img_span)>>
                  /\ CallIds(f) = <<FirstHalf(f.img_span), SecondHalf(f.img_span)>>

\* C13 amended: a chunk is split exactly when its montage's encoded size is at
\* least 5 MiB and submitted as one single call exactly when the size is below
\* 5 MiB; when split, it is split once into the first floor(n/2) crops and the
\* rest, each half gets its own montage and its own face_id list, the first half
\* is submitted, the second half is submitted if and only if the call of the
\* first half returned a response, and no half is split again.
C13_SplitExactlyFromLimit ==
    \A c \in RanChunks :
        LET f == futures[c]
        IN  /\ WasSplit(f) <=> f.size >= FiveMiB
            /\ (f.size < FiveMiB) <=> CallIds(f) = <<f.img_span>>
            /\ WasSplit(f) =>
                  /\ f.montages = <<f.img_span, FirstHalf(f.img_span), SecondHalf(f.img_span)>>
                  /\ IF f.calls[1].outcome = "response"
                     THEN CallIds(f) = <<FirstHalf(f.img_span), SecondHalf(f.img_span)>>
                     ELSE CallIds(f) = <<FirstHalf(f.img_span)>>
                  /\ f.state = "done" =>
                        /\ Len(f.result) = Len(f.img_span)
                        /\ \A j \in 1 .. Len(f.result) : f.result[j][1] = f.img_span[j]

\* a chunk of exactly 5 MiB was split into two halves, each with its own call
C13_Witness ==
    \E c \in RanChunks :
        /\ futures[c].size = FiveMiB
        /\ WasSplit(futures[c])
        /\ Len(futures[c].calls) = 2
        /\ Len(futures[c].img_span) = 4
        /\ futures[c].state = "done"

\* n_cols * n_rows
ChunkSize == MONTAGE_WIDTH * MONTAGE_HEIGHT

\* the face_ids of a list are in strictly ascending order
Ascending(ids) == \A i, j \in DOMAIN ids : i < j => ids[i] < ids[j]

\* the crops of the chunks 1 .. n, in submission order
RECURSIVE SpansUpTo(_)
SpansUpTo(n) == IF n = 0 THEN <<>> ELSE SpansUpTo(n - 1) \o futures[n].img_span

\* the results of the chunks 1 .. n, in submission order
RECURSIVE ResultsUpTo(_)
ResultsUpTo(n) == IF n = 0 THEN <<>> ELSE ResultsUpTo(n - 1) \o futures[n].result

\* every chunk task has ended
AllChunksEnded == \A c \in DOMAIN futures : futures[c].state # "pending"

\* C25: in process_video the crops are in ascending numeric face_id order whatever
\* the order of the directory listing; chunk c holds the crops (c-1)*C*R+1 ..
\* min(c*C*R, n) of that order, so the chunks are contiguous, not empty, and
\* together hold every crop exactly once; the label list stays empty until every
\* chunk task has ended and is then the results of the first chunks in submission
\* order, whatever the order in which the tasks ended.
C25_ChunksInOrderDrainedInSubmissionOrder ==
    /\ vpc # "list" =>
          /\ Ascending(img_files)
          /\ \A j \in DOMAIN img_files : img_files[j] = j - 1
    /\ \A c \in DOMAIN futures :
          /\ futures[c].img_span # <<>>
          /\ futures[c].img_span =
                SubSeq(img_files, (c - 1) * ChunkSize + 1,
                       Min(c * ChunkSize, Len(img_files)))
    /\ vpc \in {"list", "submit"} => video_labels = <<>> /\ fi = 0
    /\ vpc \in {"drain", "saved", "raised"} =>
          /\ SpansUpTo(Len(futures)) = img_files
          /\ AllChunksEnded
          /\ Len(completed) = Len(futures)
          /\ \A c \in 1 .. (fi - 1) : futures[c].state = "done"
          /\ video_labels = ResultsUpTo(fi - 1)
    /\ vpc = "saved" => identities = {ResultsUpTo(Len(futures))}

\* five crops in three chunks of two, two and one: the tasks ended in the order
\* 3, 2, 1 and the labels saved are those of the crops 0 .. 4, in this order
C25_Witness ==
    /\ vpc = "saved"
    /\ MONTAGE_WIDTH * MONTAGE_HEIGHT = 2
    /\ Len(img_files) = 5
    /\ completed = <<3, 2, 1>>
    /\ Len(video_labels) = 5
    /\ \A j \in 1 .. 5 : video_labels[j][1] = j - 1

(***************************************************************************)
(* One call of process_labeling_results, on the geometries and responses   *)
(* below.  The first loop and the second loop are one step each.           *)
(***************************************************************************)
\* for face in aws_response['CelebrityFaces']: ...
DecodeRecognized ==
    /\ dpc = "recognized"
    /\ labels' = recognized_loop(aws_response.CelebrityFaces,
                                 Len(aws_response.CelebrityFaces),
                                 geometry.n_cols, geometry.block_size, geometry.img_ids)
    /\ dpc' = "unrecognized"
    /\ UNCHANGED <<dvars, svars, wvars, vvars, pvars, geometry, aws_response, decoded>>

\* for face in aws_response['UnrecognizedFaces']: ...
\* return [(k, v[0], v[1]) for k, v in labels.items()]
DecodeUnrecognized ==
    /\ dpc = "unrecognized"
    /\ labels' = unrecognized_loop(labels, aws_response.UnrecognizedFaces,
                                   Len(aws_response.UnrecognizedFaces),
                                   geometry.n_cols, geometry.block_size, geometry.img_ids)
    /\ decoded' = labels_list(labels')
    /\ dpc' = "returned"
    /\ UNCHANGED <<dvars, svars, wvars, vvars, pvars, geometry, aws_response>>

\* block sizes: below 6, a multiple of 6, and odd
BlockSizes == {4, 6, 7}

\* the geometries decoded: the face_ids of the montage are 4, 5, ...
Geometries ==
    {[n_cols |-> c, block_size |-> b, img_ids |-> [j \in 1 .. n |-> j + 3]] :
        c \in 1 .. MaxCols, b \in BlockSizes, n \in 1 .. MaxCount}

\* number of rows of the montage: math.ceil(len(img_ids) / n_cols)
Rows(g) == (Len(g.img_ids) + g.n_cols - 1) \div g.n_cols

\* centres, in half pixels, from one cell to the left of the montage to one cell
\* to its right, at every half pixel
CentresX(g) == (-2 * g.block_size) .. (2 * g.block_size * (g.n_cols + 1) - 1)

\* centres from one cell above the montage to one cell below, at four heights
\* around the middle of each row
CentresY(g) ==
    {2 * g.block_size * r + g.block_size + o : r \in -1 .. Rows(g), o \in {-1, 0, 1, 2}}

\* recognized boxes near the middle of the first cell: on the middle as the code
\* measures it, half a pixel to its right under two different names, and half a
\* pixel to its right and below
RecognizedBoxes(g) ==
    LET c == 2 * (g.block_size \div 2)
    IN  {[Name |-> <<"a", 0>>, MatchConfidence |-> 91, cx |-> c, cy |-> c],
         [Name |-> <<"b", 0>>, MatchConfidence |-> 92, cx |-> c + 1, cy |-> c],
         [Name |-> <<"c", 0>>, MatchConfidence |-> 93, cx |-> c + 1, cy |-> c],
         [Name |-> <<"d", 0>>, MatchConfidence |-> 94, cx |-> c + 1, cy |-> c + 1]}

\* unrecognized boxes near the middle of the first cell: on the middle, and half a
\* pixel below it
UnrecognizedBoxes(g) ==
    LET c == 2 * (g.block_size \div 2)
    IN  {[Name |-> <<"unrecognized", 0>>, MatchConfidence |-> 0, cx |-> c, cy |-> c],
         [Name |-> <<"unrecognized", 0>>, MatchConfidence |-> 0, cx |-> c, cy |-> c + 1]}

SeqsUpTo(S, n) == UNION {[1 .. m -> S] : m \in 0 .. n}

\* the responses decoded against geometry g:
\*  - one recognized detection centred anywhere in and around the montage;
\*  - every crop recognized at the centre of its cell, and one unrecognized
\*    detection centred anywhere in and around the montage;
\*  - lists of nearby boxes
ResponsesOf(g) ==
    {[CelebrityFaces |-> <<[Name |-> <<"a", 0>>, MatchConfidence |-> 91, cx |-> x, cy |-> y]>>,
      UnrecognizedFaces |-> <<>>] : x \in CentresX(g), y \in CentresY(g)}
    \cup
    {[CelebrityFaces |->
          recognize_celebrities(g.img_ids, g.n_cols, g.block_size).CelebrityFaces,
      UnrecognizedFaces |-> <<[Name |-> <<"unrecognized", 0>>, MatchConfidence |-> 0, cx |-> x, cy |-> y]>>] :
          x \in CentresX(g), y \in CentresY(g)}
    \cup
    {[CelebrityFaces |-> r, UnrecognizedFaces |-> u] :
          r \in SeqsUpTo(RecognizedBoxes(g), MaxRecognized),
          u \in SeqsUpTo(UnrecognizedBoxes(g), MaxUnrecognized)}

InitDecode ==
    /\ DetectIdle
    /\ SearchIdle
    /\ VideoIdle
    /\ PoolIdle
    /\ MainIdle
    /\ RunIdle
    /\ geometry \in Geometries
    /\ aws_response \in ResponsesOf(geometry)
    /\ dpc = "recognized"
    /\ labels = EmptyLabels
    /\ decoded = <<>>

NextDecode ==
    \/ DecodeRecognized
    \/ DecodeUnrecognized

SpecDecode == InitDecode /\ [][NextDecode]_vars

(***************************************************************************)
(* Properties of process_labeling_results.  The definitions below restate  *)
(* the geometry as the claims word it; centres and residuals are in half   *)
(* pixels, as in the model of the code.                                    *)
(***************************************************************************)
BlockSize == geometry.block_size
Count == Len(geometry.img_ids)

\* the response holds one recognized detection and nothing else
OnlyOneRecognized ==
    /\ Len(aws_response.CelebrityFaces) = 1
    /\ Len(aws_response.UnrecognizedFaces) = 0

TheFace == aws_response.CelebrityFaces[1]

\* the cell (floor(center_x / block_size), floor(center_y / block_size))
CellX(face) == face.cx \div (2 * BlockSize)
CellY(face) == face.cy \div (2 * BlockSize)
CellIdx(face) == CellY(face) * geometry.n_cols + CellX(face)

\* the centre lies inside the montage
Inside(face) ==
    /\ face.cx >= 0 /\ face.cx < 2 * BlockSize * geometry.n_cols
    /\ face.cy >= 0 /\ face.cy < 2 * BlockSize * Rows(geometry)

\* the cell of the centre is a populated cell of the montage
Populated(face) ==
    /\ CellX(face) >= 0 /\ CellX(face) < geometry.n_cols
    /\ CellY(face) >= 0
    /\ CellIdx(face) >= 0 /\ CellIdx(face) < Count

\* twice |center mod block_size - block_size/2|
ExactResidual(c) == Abs((c % (2 * BlockSize)) - BlockSize)

\* both residuals |center mod block_size - block_size/2| < block_size/6
ExactNearCentre(face) ==
    /\ 3 * ExactResidual(face.cx) < BlockSize
    /\ 3 * ExactResidual(face.cy) < BlockSize

\* twice |center mod block_size - floor(block_size/2)|
TruncResidual(c) == Abs((c % (2 * BlockSize)) - 2 * (BlockSize \div 2))

\* both residuals |center mod block_size - floor(block_size/2)| < floor(block_size/6)
TruncNearCentre(face) ==
    /\ TruncResidual(face.cx) < 2 * (BlockSize \div 6)
    /\ TruncResidual(face.cy) < 2 * (BlockSize \div 6)

\* the dict holds the detection as the candidate of the face_id of its cell
IsCandidate(face) ==
    /\ CellIdx(face) + 1 \in DOMAIN geometry.img_ids
    /\ LET face_id == geometry.img_ids[CellIdx(face) + 1]
       IN  /\ face_id \in Keys(labels)
           /\ labels.val[face_id][1] = face.Name
           /\ labels.val[face_id][2] = face.MatchConfidence
           /\ labels.val[face_id][4] = CellX(face)
           /\ labels.val[face_id][5] = CellY(face)

InRange(face) == CellIdx(face) >= 0 /\ CellIdx(face) < Count
FaceIdOf(face) == geometry.img_ids[CellIdx(face) + 1]

\* the L1 residual residual_x + residual_y of a detection
L1(face) == TruncResidual(face.cx) + TruncResidual(face.cy)

\* positions in the list of the accepted recognized detections that map to face_id
Candidates(face_id) ==
    {j \in DOMAIN aws_response.CelebrityFaces :
        LET face == aws_response.CelebrityFaces[j]
        IN  TruncNearCentre(face) /\ InRange(face) /\ FaceIdOf(face) = face_id}

\* the accepted recognized detections of face_id with the minimum L1 residual
Best(face_id) ==
    {j \in Candidates(face_id) :
        \A j2 \in Candidates(face_id) :
            L1(aws_response.CelebrityFaces[j]) <= L1(aws_response.CelebrityFaces[j2])}

FaceIds == {geometry.img_ids[j] : j \in DOMAIN geometry.img_ids}

\* C15: process_labeling_results emits at most one label per face_id, and after
\* the recognized detections are processed the candidate held for a face_id is one
\* with the minimum L1 residual among all accepted recognized detections that map
\* to that face_id (and a face_id without such a detection holds no candidate).
C15_OneLabelOfMinimumResidual ==
    /\ dpc = "unrecognized" =>
          \A face_id \in FaceIds :
              /\ face_id \in Keys(labels) <=> Candidates(face_id) # {}
              /\ face_id \in Keys(labels) =>
                    \E j \in Best(face_id) :
                        /\ labels.val[face_id][1] = aws_response.CelebrityFaces[j].Name
                        /\ labels.val[face_id][2] = aws_response.CelebrityFaces[j].MatchConfidence
                        /\ labels.val[face_id][3] = L1(aws_response.CelebrityFaces[j])
    /\ dpc = "unrecognized" => Keys(labels) \subseteq FaceIds
    /\ dpc = "returned" =>
          \A i, j \in DOMAIN decoded : i # j => decoded[i][1] # decoded[j][1]

\* a face_id with two accepted candidates of different residuals, the farther one
\* listed first: the dict holds the closer one
C15_Witness ==
    /\ dpc = "unrecognized"
    /\ \E face_id \in FaceIds :
          /\ 1 \in Candidates(face_id) /\ 2 \in Candidates(face_id)
          /\ L1(aws_response.CelebrityFaces[1]) > L1(aws_response.CelebrityFaces[2])
          /\ labels.val[face_id][1] = aws_response.CelebrityFaces[2].Name

\* the face_ids of the list returned
EmittedIds == {decoded[j][1] : j \in DOMAIN decoded}

\* an unrecognized detection maps to face_id: both residuals < block_size/2 and
\* its index is in range
UnrecognizedOn(face_id) ==
    {j \in DOMAIN aws_response.UnrecognizedFaces :
        LET face == aws_response.UnrecognizedFaces[j]
        IN  /\ TruncResidual(face.cx) < BlockSize
            /\ TruncResidual(face.cy) < BlockSize
            /\ InRange(face) /\ FaceIdOf(face) = face_id}

\* an unrecognized detection on face_id is strictly closer than the best candidate
Retracted(face_id) ==
    \E u \in UnrecognizedOn(face_id) : \A j \in Best(face_id) :
        L1(aws_response.UnrecognizedFaces[u]) < L1(aws_response.CelebrityFaces[j])

\* C16: a face_id appears in the output if and only if it has at least one
\* accepted recognized candidate and no unrecognized detection maps to it with an
\* L1 residual strictly smaller than that of its best recognized candidate.  The
\* label it appears with is that of a best recognized candidate: unrecognized
\* detections add no label and a retracted face_id gets no other label.
C16_OutputIffNotRetracted ==
    dpc = "returned" =>
        /\ \A face_id \in FaceIds :
              face_id \in EmittedIds <=> (Candidates(face_id) # {} /\ ~Retracted(face_id))
        /\ EmittedIds \subseteq FaceIds
        /\ \A i \in DOMAIN decoded :
              \E j \in Best(decoded[i][1]) :
                  /\ decoded[i][2] = aws_response.CelebrityFaces[j].Name
                  /\ decoded[i][3] = aws_response.CelebrityFaces[j].MatchConfidence

\* a face_id with two candidates is retracted by an unrecognized detection that is
\* closer than the better of the two
C16_Witness ==
    /\ dpc = "returned"
    /\ \E face_id \in FaceIds :
          /\ Cardinality(Candidates(face_id)) = 2
          /\ Cardinality(Best(face_id)) = 1
          /\ Retracted(face_id)
          /\ face_id \notin EmittedIds

\* the recognized detection is centred exactly on the cell of the nth crop placed
\* (row-major, nth = 0, 1, ...)
AtCentreOfCell(face, nth) ==
    /\ face.cx = 2 * BlockSize * (nth % geometry.n_cols) + BlockSize
    /\ face.cy = 2 * BlockSize * (nth \div geometry.n_cols) + BlockSize

PopulatedOnly(faces) == SelectSeq(faces, Populated)

\* C18: a detection (recognized or unrecognized) whose computed grid cell is not
\* a populated cell of the montage -- column outside [0, C), negative row, or
\* row-major index outside [0, count) -- is dropped: it creates no label and
\* retracts no label, so the list returned is the one returned for the response
\* without these detections.
C18_UnpopulatedCellsAreDropped ==
    dpc = "returned" =>
        decoded = process_labeling_results(geometry.n_cols, geometry.block_size,
                      geometry.img_ids,
                      [CelebrityFaces |-> PopulatedOnly(aws_response.CelebrityFaces),
                       UnrecognizedFaces |-> PopulatedOnly(aws_response.UnrecognizedFaces)])

\* the permutations of 1 .. n, as functions
Orders(n) == Permutations(1 .. n)

\* the list faces in the order f
Reordered(faces, f) == [j \in 1 .. Len(faces) |-> faces[f[j]]]

\* the set of labels of a list returned
LabelSet(list) == {list[j] : j \in DOMAIN list}

\* the set of labels returned for the response with its two lists reordered
LabelsUnder(f, h) ==
    LabelSet(process_labeling_results(geometry.n_cols, geometry.block_size,
                 geometry.img_ids,
                 [CelebrityFaces |-> Reordered(aws_response.CelebrityFaces, f),
                  UnrecognizedFaces |-> Reordered(aws_response.UnrecognizedFaces, h)]))

Tie ==
    \E face_id \in FaceIds : \E i, j \in Candidates(face_id) :
        /\ L1(aws_response.CelebrityFaces[i]) = L1(aws_response.CelebrityFaces[j])
        /\ \/ aws_response.CelebrityFaces[i].Name # aws_response.CelebrityFaces[j].Name
           \/ aws_response.CelebrityFaces[i].MatchConfidence #
                  aws_response.CelebrityFaces[j].MatchConfidence

\* the position of the first listed of the best candidates of face_id
FirstBest(face_id) ==
    CHOOSE j \in Best(face_id) : \A j2 \in Best(face_id) : j <= j2

num_workers(n_videos) == Min(n_videos, 4)

\* mutant of num_threads_per_worker: every worker gets the whole allowance
num_threads_undivided(n_videos) == 60

\* num_threads_per_worker = 60 // num_workers
num_threads_per_worker(n_videos) == 60 \div num_workers(n_videos)

Workers == 1 .. num_workers(video_names)

\* a worker process between two videos
IdleWorker == [video |-> 0, waiting |-> 0, running |-> 0]

\* numbers of chunks of a video: a single chunk, or two; with one or two videos,
\* also one chunk more than a worker has threads
ChunkCounts ==
    IF video_names <= 2
    THEN {1, 2, num_threads_per_worker(video_names) + 1}
    ELSE {1, 2}

\* workers.apply_async(process_video, ...): an idle process takes the next video;
\* process_video submits one task per chunk to its executor
TakeVideo(w) ==
    /\ proc[w].video = 0
    /\ next_video < video_names
    /\ next_video' = next_video + 1
    /\ \E n \in ChunkCounts :
         proc' = [proc EXCEPT ![w] = [video |-> next_video + 1, waiting |-> n, running |-> 0]]
    /\ UNCHANGED <<dvars, svars, wvars, kvars, vvars, video_names>>

\* ThreadPoolExecutor(max_threads): a thread takes a waiting task while fewer
\* than max_threads threads are busy
StartTask(w) ==
    /\ proc[w].waiting > 0
    /\ proc[w].running < num_threads_per_worker(video_names)
    /\ proc' = [proc EXCEPT ![w].waiting = @ - 1, ![w].running = @ + 1]
    /\ UNCHANGED <<dvars, svars, wvars, kvars, vvars, video_names, next_video>>

\* submit_images_for_labeling returns or raises
EndTask(w) ==
    /\ proc[w].running > 0
    /\ proc' = [proc EXCEPT ![w].running = @ - 1]
    /\ UNCHANGED <<dvars, svars, wvars, kvars, vvars, video_names, next_video>>

\* process_video ends once the executor has run every task
EndVideo(w) ==
    /\ proc[w].video # 0
    /\ proc[w].waiting = 0
    /\ proc[w].running = 0
    /\ proc' = [proc EXCEPT ![w] = IdleWorker]
    /\ UNCHANGED <<dvars, svars, wvars, kvars, vvars, video_names, next_video>>

InitPool ==
    /\ DetectIdle
    /\ SearchIdle
    /\ DecodeIdle
    /\ VideoIdle
    /\ MainIdle
    /\ RunIdle
    /\ video_names \in 1 .. MaxVideos
    /\ next_video = 0
    /\ proc = [w \in Workers |-> IdleWorker]

NextPool ==
    \/ \E w \in Workers : TakeVideo(w)
    \/ \E w \in Workers : StartTask(w)
    \/ \E w \in Workers : EndTask(w)
    \/ \E w \in Workers : EndVideo(w)

SpecPool == InitPool /\ [][NextPool]_vars

(***************************************************************************)
(* Properties of the pool.                                                 *)
(***************************************************************************)
\* the threads that run a chunk task, over the workers 1 .. n
RECURSIVE RunningUpTo(_)
RunningUpTo(n) == IF n = 0 THEN 0 ELSE RunningUpTo(n - 1) + proc[n].running

NewDir == [crops |-> TRUE, identities |-> FALSE]
DoneDir == [crops |-> TRUE, identities |-> TRUE]
BareDir == [crops |-> FALSE, identities |-> FALSE]

\* os.listdir(in_path): the listings considered
InPaths ==
    {<<>>, <<NewDir>>, <<DoneDir>>, <<BareDir>>,
     <<NewDir, DoneDir, BareDir, NewDir, NewDir>>}

\* mutant of credentials_missing: main returns only when both are missing
both_credentials_missing == ~ AWS_ACCESS_KEY_ID /\ ~ AWS_SECRET_ACCESS_KEY

\* not config.AWS_ACCESS_KEY_ID or not config.AWS_SECRET_ACCESS_KEY
credentials_missing == ~ AWS_ACCESS_KEY_ID \/ ~ AWS_SECRET_ACCESS_KEY

\* the entry of main: without credentials it returns; otherwise it lists in_path
\* and creates the output directory of every video listed
MainEnter ==
    /\ mpc = "entry"
    /\ IF credentials_missing
       THEN /\ mpc' = "returned"
            /\ UNCHANGED <<names, made>>
       ELSE /\ names' = [j \in 1 .. Len(in_path) |-> j]
            /\ made' = 1 .. Len(in_path)
            /\ mpc' = "prune"
    /\ UNCHANGED <<dvars, svars, kvars, vvars, pvars, rvars,
                   AWS_ACCESS_KEY_ID, AWS_SECRET_ACCESS_KEY, overwrite, in_path>>

\* list.pop(i), i counted from 1
pop(list, i) == [x \in 1 .. (Len(list) - 1) |-> IF x < i THEN list[x] ELSE list[x + 1]]

\* for i in range(len(video_names) - 1, -1, -1): a video without a crops
\* directory is popped, and so is, unless force, one whose identities exist
RECURSIVE prune_from(_, _)
prune_from(list, i) ==
    IF i < 1 THEN list
    ELSE IF ~ in_path[list[i]].crops THEN prune_from(pop(list, i), i - 1)
    ELSE IF ~ overwrite /\ in_path[list[i]].identities
         THEN prune_from(pop(list, i), i - 1)
    ELSE prune_from(list, i - 1)

\* the pruning loop; main returns if no video is left, otherwise it creates the
\* pool of num_workers processes
MainPrune ==
    /\ mpc = "prune"
    /\ LET left == prune_from(names, Len(names))
       IN  /\ names' = left
           /\ IF left = <<>>
              THEN /\ mpc' = "returned"
                   /\ UNCHANGED pvars
              ELSE /\ mpc' = "pool"
                   /\ video_names' = Len(left)
                   /\ next_video' = 0
                   /\ proc' = [w \in 1 .. num_workers(Len(left)) |-> IdleWorker]
    /\ UNCHANGED <<dvars, svars, kvars, vvars, rvars,
                   AWS_ACCESS_KEY_ID, AWS_SECRET_ACCESS_KEY, overwrite, in_path, made>>

\* workers.close(); workers.join(): every video was handed out and has ended
MainJoin ==
    /\ mpc = "pool"
    /\ next_video = video_names
    /\ \A w \in Workers : proc[w] = IdleWorker
    /\ mpc' = "joined"
    /\ UNCHANGED <<dvars, svars, kvars, vvars, pvars, rvars,
                   AWS_ACCESS_KEY_ID, AWS_SECRET_ACCESS_KEY, overwrite, in_path,
                   names, made>>

InitMain ==
    /\ DetectIdle
    /\ SearchIdle
    /\ DecodeIdle
    /\ VideoIdle
    /\ PoolIdle
    /\ RunIdle
    /\ AWS_ACCESS_KEY_ID \in BOOLEAN
    /\ AWS_SECRET_ACCESS_KEY \in BOOLEAN
    /\ overwrite \in BOOLEAN
    /\ in_path \in InPaths
    /\ names = <<>>
    /\ made = {}
    /\ mpc = "entry"

NextMain ==
    \/ MainEnter
    \/ MainPrune
    \/ \E w \in Workers : TakeVideo(w)
    \/ \E w \in Workers : StartTask(w)
    \/ \E w \in Workers : EndTask(w)
    \/ \E w \in Workers : EndVideo(w)
    \/ MainJoin

SpecMain == InitMain /\ [][NextMain]_vars

(***************************************************************************)
(* Properties of main.                                                     *)
(***************************************************************************)
\* one of the two credentials of the recognition service is not configured
CredentialsAbsent == AWS_ACCESS_KEY_ID = FALSE \/ AWS_SECRET_ACCESS_KEY = FALSE

\* C23: when a credential of the recognition service is missing, main returns
\* from its entry: it never lists the videos, creates no output directory,
\* creates no pool and hands no video to process_video, so that no chunk task
\* (the only caller of the service) runs and no process_video call (the only
\* writer of an identities file) ends.
C23_NoCredentialsNothingDone ==
    CredentialsAbsent =>
        /\ mpc \in {"entry", "returned"}
        /\ made = {}
        /\ names = <<>>
        /\ video_names = 0
        /\ next_video = 0
        /\ proc = <<>>

\* main has returned for want of the secret key, with five videos listed in
\* in_path, three of them ready to be identified
C23_Witness ==
    /\ mpc = "returned"
    /\ AWS_ACCESS_KEY_ID
    /\ ~ AWS_SECRET_ACCESS_KEY
    /\ Len(in_path) = 5
    /\ made = {}

(***************************************************************************)
(* Part VII  process_videos over the whole list: the pruning of the videos *)
(*           with existing outputs, the metadata of the videos left and    *)
(*           the loop, whose body is Part I.                               *)
(*                                                                         *)
(* A video is its position in the list given.  out_paths[v] is the set of  *)
(* artifacts of AllFiles that validate in the output directory of video v  *)
(* when the run starts.  In the loop, disk shows what the run has written  *)
(* to the output directory of the current video.                           *)
(***************************************************************************)
NAMED_COMPONENTS == {"face_detection", "face_embedding", "face_crops"}

\* the values of --disable considered: nothing, one component, all of them
Disables == {{}, NAMED_COMPONENTS} \cup {{c} : c \in NAMED_COMPONENTS}

\* the states of an output directory considered: every artifact validates, all
\* but one do, none does
ArtifactSets == {AllFiles, {}} \cup {AllFiles \ {a} : a \in AllFiles}

\* the lengths of the list of videos given
RunLengths == {0, 1, 2}

\* os.cpu_count() in the runs over a list
RunThreads == {1, 2}

\* get_video_metadata of the videos of a list: a file that cannot be opened
\* (every property reads 0), a video shorter than one interval, a video of 3 slots
RunMetas == {[frames |-> 0, fps |-> 0], [frames |-> 0, fps |-> 1], [frames |-> 3, fps |-> 1]}

\* the condition under which a video is popped from the list
existing_outputs(dir) ==
    /\ ("face_detection" \in disable \/ "bboxes" \in dir)
    /\ ("face_embeddings" \in disable \/ "embeddings" \in dir)
    /\ "metadata" \in dir
    /\ ("face_crops" \in disable \/ "crops" \in dir)

\* for i in range(len(video_paths) - 1, -1, -1): if ...: video_paths.pop(i)
RECURSIVE prune_videos(_, _, _)
prune_videos(list, dirs, i) ==
    IF i < 1 THEN list
    ELSE IF existing_outputs(dirs[list[i]])
         THEN prune_videos(pop(list, i), dirs, i - 1)
         ELSE prune_videos(list, dirs, i - 1)

\* "Don't reingest videos with existing outputs", and the return when no video
\* is left.  The directories are read only without --init-run and --force-rerun;
\* with one of them they are taken to be all empty or all complete.
Prune ==
    /\ rpc = "prune"
    /\ \E dirs \in [1 .. Len(video_paths) -> ArtifactSets] :
         /\ (init_run \/ force) =>
                \E a \in {{}, AllFiles} : \A v \in DOMAIN dirs : dirs[v] = a
         /\ out_paths' = dirs
         /\ video_paths' = IF ~ init_run /\ ~ force
                           THEN prune_videos(video_paths, dirs, Len(video_paths))
                           ELSE video_paths
    /\ rpc' = IF video_paths' = <<>> THEN "returned" ELSE "metadata"
    /\ UNCHANGED <<dvars, svars, kvars, vvars, pvars, mvars,
                   init_run, force, disable, all_metadata, vid_id, log>>

\* sum(math.floor(m['frames'] / m['fps'] / interval) for m in all_metadata)
RECURSIVE total_sec(_)
total_sec(metadata) ==
    IF metadata = <<>> THEN 0
    ELSE n_sec(Head(metadata), interval) + total_sec(Tail(metadata))

\* load_models, all_metadata, n_threads and total_sec: the division by an fps of 0
\* raises ZeroDivisionError
CollectMetadata ==
    /\ rpc = "metadata"
    /\ \E ms \in [1 .. Len(video_paths) -> RunMetas] :
         /\ all_metadata' = ms
         /\ IF \E v \in DOMAIN ms : ms[v].fps = 0
            THEN rpc' = "raised" /\ vid_id' = vid_id
            ELSE rpc' = "loop" /\ vid_id' = 1
    /\ UNCHANGED <<dvars, svars, kvars, vvars, pvars, mvars,
                   init_run, force, disable, out_paths, video_paths, log>>

\* the head of the loop body for video vid_id: the progress line divides by
\* total_sec (ZeroDivisionError when it is 0); then the per-thread lists and the
\* threads are created
BeginVideo ==
    /\ rpc = "loop"
    /\ pc = "idle"
    /\ vid_id <= Len(video_paths)
    /\ IF total_sec(all_metadata) = 0
       THEN /\ rpc' = "raised"
            /\ UNCHANGED <<meta, pc, k, tpc, range, sec, thread_bboxes, thread_crops,
                           thread_embeddings, failed, doneOrder, disk, pending>>
       ELSE /\ rpc' = rpc
            /\ meta' = all_metadata[vid_id]
            /\ pc' = "start"
            /\ k' = 0
            /\ tpc' = [i \in Threads |-> "new"]
            /\ range' = [i \in Threads |-> <<>>]
            /\ sec' = [i \in Threads |-> 0]
            /\ thread_bboxes' = [i \in Threads |-> <<>>]
            /\ thread_crops' = [i \in Threads |-> <<>>]
            /\ thread_embeddings' = [i \in Threads |-> <<>>]
            /\ failed' = [i \in Threads |-> "no"]
            /\ doneOrder' = <<>>
            /\ disk' = EmptyDisk
            /\ pending' = {}
    /\ UNCHANGED <<svars, kvars, vvars, pvars, mvars,
                   n_threads, interval, embedShort, all_bboxes, all_crops, all_embeddings,
                   init_run, force, disable, out_paths, video_paths, all_metadata,
                   vid_id, log>>

\* mutant of continue_with: the run ends at the first video that is discarded
abort_run(v) == Len(video_paths) + 1

\* continue: the loop goes on with the next video
continue_with(v) == v + 1

\* the end of the loop body, by "continue" after the count check or after the
\* last artifact is written; log keeps what the iteration did
EndOfVideo ==
    /\ rpc = "loop"
    /\ pc \in {"skipped", "done"}
    /\ log' = Append(log,
          [video |-> video_paths[vid_id],
           meta |-> meta,
           workers |-> Cardinality({i \in Threads : tpc[i] = "done"}),
           read_failed |-> \E i \in Threads : failed[i] = "read",
           mismatch |-> CountMismatch(n_sec(meta, interval)),
           disk |-> disk])
    /\ vid_id' = IF pc = "skipped" THEN continue_with(vid_id) ELSE vid_id + 1
    /\ pc' = "idle"
    /\ UNCHANGED <<svars, kvars, vvars, pvars, mvars,
                   n_threads, interval, meta, embedShort, k,
                   all_bboxes, all_crops, all_embeddings, tpc, range, sec,
                   thread_bboxes, thread_crops, thread_embeddings, failed, doneOrder,
                   disk, pending,
                   init_run, force, disable, out_paths, video_paths, all_metadata, rpc>>

\* the end of the loop: face_embedder.close(); face_detector.close()
Finish ==
    /\ rpc = "loop"
    /\ pc = "idle"
    /\ vid_id > Len(video_paths)
    /\ rpc' = "finished"
    /\ UNCHANGED <<dvars, svars, kvars, vvars, pvars, mvars,
                   init_run, force, disable, out_paths, video_paths, all_metadata,
                   vid_id, log>>

InitRun ==
    /\ SearchIdle
    /\ DecodeIdle
    /\ VideoIdle
    /\ PoolIdle
    /\ MainIdle
    /\ n_threads \in RunThreads
    /\ interval = 1
    /\ meta = [frames |-> 0, fps |-> 1]
    /\ embedShort = {}
    /\ pc = "idle"
    /\ k = 0
    /\ all_bboxes = <<>> /\ all_crops = <<>> /\ all_embeddings = <<>>
    /\ tpc = [i \in Threads |-> "new"]
    /\ range = [i \in Threads |-> <<>>]
    /\ sec = [i \in Threads |-> 0]
    /\ thread_bboxes = [i \in Threads |-> <<>>]
    /\ thread_crops = [i \in Threads |-> <<>>]
    /\ thread_embeddings = [i \in Threads |-> <<>>]
    /\ failed = [i \in Threads |-> "no"]
    /\ doneOrder = <<>>
    /\ disk = EmptyDisk
    /\ pending = {}
    /\ init_run \in BOOLEAN
    /\ force \in BOOLEAN
    /\ disable \in Disables
    /\ out_paths = <<>>
    /\ \E n \in RunLengths : video_paths = [v \in 1 .. n |-> v]
    /\ all_metadata = <<>>
    /\ rpc = "prune"
    /\ vid_id = 0
    /\ log = <<>>

NextRun ==
    \/ Prune
    \/ CollectMetadata
    \/ BeginVideo
    \/ StartThread
    \/ \E i \in Threads : ThreadOpen(i)
    \/ \E i \in Threads : ThreadBatch(i)
    \/ JoinThread
    \/ Merge
    \/ Check
    \/ SaveMetadata
    \/ SaveBboxes
    \/ SaveEmbeddings
    \/ SaveCrops
    \/ \E t \in pending : SaveImg(t)
    \/ ExecutorExit
    \/ EndOfVideo
    \/ Finish

SpecRun == InitRun /\ [][NextRun]_vars

(***************************************************************************)
(* Properties of the run over the list.                                    *)
(***************************************************************************)
\* video v of the list given was removed from it before the loop
Skipped(v) == \A x \in DOMAIN video_paths : video_paths[x] # v

\* the artifacts required of video v validate: the metadata, and the artifact
\* of every named component that is not disabled
RequiredValidate(v) ==
    /\ "metadata" \in out_paths[v]
    /\ ("face_detection" \in disable \/ "bboxes" \in out_paths[v])
    /\ ("face_embedding" \in disable \/ "embeddings" \in out_paths[v])
    /\ ("face_crops" \in disable \/ "crops" \in out_paths[v])

\* C21: once the pruning is over, a video of the list given is skipped if and
\* only if neither --init-run nor --force-rerun is set and its required artifacts
\* validate: the metadata always, and the bounding boxes, the embeddings and the
\* crops directory unless face_detection, face_embedding, face_crops is disabled.
C21_SkippedIffRequiredArtifactsValidate ==
    rpc # "prune" =>
        \A v \in DOMAIN out_paths :
            Skipped(v) <=> (~ init_run /\ ~ force /\ RequiredValidate(v))

\* the video of entry x of the log was discarded for a decode failure: a read of
\* one of its workers failed and the count check skipped it
Discarded(x) ==
    /\ log[x].read_failed
    /\ log[x].mismatch
    /\ log[x].disk = EmptyDisk

\* every artifact of the video of entry x of the log was written
Persisted(x) ==
    /\ log[x].disk.files = AllFiles
    /\ log[x].disk.metadata = <<log[x].meta>>

\* C22: once a video has been discarded for a decode failure the run is not
\* aborted: it goes on with the next video of the list and ends only after the
\* last one; every later video has the iteration of its own position, with its
\* own metadata and all n_threads workers run to their end, and all its artifacts
\* are written if its own count check passes and none otherwise.
C22_LaterVideosStillProcessed ==
    \A x \in DOMAIN log :
        Discarded(x) =>
            /\ rpc \in {"loop", "finished"}
            /\ rpc = "finished" => Len(log) = Len(video_paths)
            /\ rpc = "loop" => vid_id = Len(log) + 1
            /\ \A y \in DOMAIN log :
                  y > x =>
                      /\ log[y].video = video_paths[y]
                      /\ log[y].meta = all_metadata[y]
                      /\ log[y].workers = n_threads
                      /\ Persisted(y) <=> ~ log[y].mismatch
                      /\ log[y].mismatch => log[y].disk = EmptyDisk

\* the run has finished: its first video was discarded after a failed read, its
\* second video, with a face, is persisted
C22_Witness ==
    /\ rpc = "finished"
    /\ Len(log) = 2
    /\ Discarded(1)
    /\ Persisted(2)
    /\ log[2].workers = 2
    /\ Len(log[2].disk.bboxes) > 0

====
